---------------------------- MODULE Spec2Model ----------------------------
(***************************************************************************)
(* Ternary image codec v6: access-policy overlay (decide_ex, the approve  *)
(* adapters, the route helper) and the .t3p / .t3v container readers.      *)
(*                                                                         *)
(* Strings are tuples of one-character strings, so that starts_with,       *)
(* domain_depth and domain_root_of work on characters as the code does.    *)
(* 32-bit unsigned values are pairs <<hi16, lo16>>.                         *)
(***************************************************************************)
EXTENDS Integers, Sequences, FiniteSets, TLC

\* ------------------------------------------------------------------ bounds
MaxTick  == 3      \* decisions that advance the rotor, per behaviour
MaxChain == 4      \* redirects counted in one chain before the model stops
MaxTtl   == 4      \* largest route_ttl a fresh meta carries
MaxWords  == 2     \* longest word vector written to a .t3p
MaxFrames == 1     \* most frames written to a .t3v
MaxExtraErrors == 1   \* errors the channel may add beyond t = (26-k)/2

\* ------------------------------------------------------- program constants
TTL_GLOBAL_MAX_DEFAULT  == 3
HOPS_GLOBAL_MAX_DEFAULT == 6
MAX_DEPTH_DEFAULT       == 3
PREP_WINDOW             == 1
PHASE_MAX               == 2
U8_MAX                  == 255

\* ----------------------------------------------------------------- strings
EMPTY == << >>

S_a    == <<"a", "/">>
S_ab   == <<"a", "/", "b">>
S_abc  == <<"a", "/", "b", "/", "c">>
S_abd  == <<"a", "/", "b", "/", "d">>
S_abc1 == <<"a", "/", "b", "/", "c", "1">>
S_abc2 == <<"a", "/", "b", "/", "c", "2">>
S_am   == <<"a", "/", "m">>
S_amx  == <<"a", "/", "m", "/", "x">>
S_deep == <<"a", "/", "b", "/", "c", "/", "d">>
S_zq   == <<"z", "/", "q">>
S_qr   == <<"q", "/", "r">>
H_ab   == <<"a", "b">>
H_ff   == <<"f", "f">>

Ord(c) ==
  CASE c = "/" -> 47  [] c = "1" -> 49  [] c = "2" -> 50
    [] c = "a" -> 97  [] c = "b" -> 98  [] c = "c" -> 99  [] c = "d" -> 100
    [] c = "f" -> 102 [] c = "m" -> 109 [] c = "q" -> 113 [] c = "r" -> 114
    [] c = "x" -> 120 [] c = "z" -> 122

Min(a, b) == IF a < b THEN a ELSE b

starts_with(s, p) ==
  /\ Len(s) >= Len(p)
  /\ \A i \in 1..Len(p) : s[i] = p[i]

domain_depth(d) ==
  IF d = EMPTY THEN 0
  ELSE (1 + Cardinality({i \in 1..Len(d) : d[i] = "/"})) % 256

domain_root_of(d) ==
  LET slashes == {i \in 1..Len(d) : d[i] = "/"}
  IN IF slashes = {} THEN d
     ELSE LET p == CHOOSE i \in slashes : \A j \in slashes : i <= j
          IN SubSeq(d, 1, p)

\* ------------------------------------------------- 32-bit values as halves
RECURSIVE Xor(_, _, _)
Xor(a, b, n) ==
  IF n = 0 THEN 0
  ELSE (((a % 2) + (b % 2)) % 2) + (2 * Xor(a \div 2, b \div 2, n - 1))

\* a ^ b by nibbles, from a table of the 4-bit cases
XOR4 == [a \in 0..15 |-> [b \in 0..15 |-> Xor(a, b, 4)]]
Xor8(a, b)  == (XOR4[a \div 16][b \div 16] * 16) + XOR4[a % 16][b % 16]
Xor16(a, b) == (Xor8(a \div 256, b \div 256) * 256) + Xor8(a % 256, b % 256)
Xor32(x, y) == <<Xor16(x[1], y[1]), Xor16(x[2], y[2])>>

\* (x * k) mod 2^32 for a 32-bit x and a multiplier k < 2^15
MulSmall32(x, k) ==
  LET lo == x[2] * k
  IN <<((x[1] * k) + (lo \div 65536)) % 65536, lo % 65536>>

\* low 32 bits of FNV-1a 64: basis 0xCBF29CE484222325, prime 0x100000001B3
FNV_BASIS_LO32 == <<33826, 8997>>
FNV_PRIME_LO32 == 435

RECURSIVE fnv1a64_from(_, _, _)
fnv1a64_from(h, s, i) ==
  IF i > Len(s) THEN h
  ELSE fnv1a64_from(MulSmall32(<<h[1], Xor16(h[2], Ord(s[i]))>>, FNV_PRIME_LO32), s, i + 1)

fnv1a64(s) == fnv1a64_from(FNV_BASIS_LO32, s, 1)

\* low 32 bits of 0x9E3779B185EBCA87
GOLDEN_LO32 == <<34283, 51847>>

\* (k * g) mod 2^32 for k < 2^15
MulConst32(k, g) ==
  LET lo == g[2] * k
  IN <<((g[1] * k) + (lo \div 65536)) % 65536, lo % 65536>>


\* ------------------------------------------------------------- proximity
PC_LOCAL   == 0
PC_NEAR    == 1
PC_FAR     == 2
PC_UNKNOWN == 255

C_local == <<"l", "o", "c", "a", "l">>
C_near  == <<"n", "e", "a", "r">>
C_far   == <<"f", "a", "r">>

prox_from_str(s) ==
  IF s = C_local THEN PC_LOCAL
  ELSE IF s = C_near THEN PC_NEAR
  ELSE IF s = C_far THEN PC_FAR
  ELSE PC_UNKNOWN

\* ------------------------------------------------------------------ meta
\* A meta JSON blob, by the keys the parser looks up.  NONE = key absent
\* (an absent "class" is the empty string: both parse to Unknown).
\* flat  : the keys "route_ttl", "route_hops", "route_phase"
\* nested: the keys "ttl", "hops", "phase" found after a "route" key
NONE == -1

NoRoute == [ttl |-> NONE, hops |-> NONE, phase |-> NONE]

MkMeta(dom, hash, ver, cls, rad, fl, hasRoute, ne) ==
  [domain |-> dom, build_hash |-> hash, version |-> ver, class |-> cls,
   radius_m |-> rad, flat |-> fl, has_route |-> hasRoute, nested |-> ne]

\* BuildTag, defaults of the struct
BuildTag0 ==
  [domain |-> EMPTY, build_hash |-> EMPTY, version |-> 0,
   pclass |-> PC_UNKNOWN, radius_m |-> 0,
   route_ttl |-> 0, route_hops |-> 0, route_phase |-> 0]

Over(v, old, cap) == IF v = NONE THEN old ELSE Min(v, cap)

extract_build_from_meta(meta) ==
  LET ttl1   == Over(meta.flat.ttl,   0, U8_MAX)
      hops1  == Over(meta.flat.hops,  0, U8_MAX)
      phase1 == Over(meta.flat.phase, 0, PHASE_MAX)
  IN [domain      |-> meta.domain,
      build_hash  |-> meta.build_hash,
      version     |-> IF meta.version = NONE THEN 0 ELSE meta.version,
      pclass      |-> prox_from_str(meta.class),
      radius_m    |-> IF meta.radius_m = NONE THEN 0 ELSE meta.radius_m,
      route_ttl   |-> IF meta.has_route THEN Over(meta.nested.ttl,   ttl1,   U8_MAX)   ELSE ttl1,
      route_hops  |-> IF meta.has_route THEN Over(meta.nested.hops,  hops1,  U8_MAX)   ELSE hops1,
      route_phase |-> IF meta.has_route THEN Over(meta.nested.phase, phase1, PHASE_MAX) ELSE phase1]

\* ---------------------------------------------------------------- policy
INTERNAL         == 0
COEXIST_ACCEPTED == 1
UNKNOWN_SANDBOX  == 2
REJECT           == 3

Membership(dom, hash, rad) ==
  [domain_prefix |-> dom, hash_prefix_hex |-> hash, local_radius_m |-> rad]
Allow(dom, hash) == [domain_prefix |-> dom, hash_prefix_hex |-> hash]
Coexist(dom, hash, rad, cls) ==
  [domain_prefix |-> dom, hash_prefix_hex |-> hash, radius_max_m |-> rad, max_class |-> cls]
Redirect(from, to, lo, hi) ==
  [from_domain_prefix |-> from, to_domain_prefix |-> to, ttl_min |-> lo, ttl_max |-> hi]

\* Policy::make_default()
PolicyDefault ==
  [memberships |-> << >>, self |-> Membership(EMPTY, EMPTY, 0),
   internal_allow |-> << >>, coexist_allow |-> << >>,
   allowed_roots |-> << >>, max_depth |-> MAX_DEPTH_DEFAULT,
   visual_whitelist_domains |-> << >>, redirects |-> << >>,
   ttl_global_max |-> TTL_GLOBAL_MAX_DEFAULT,
   hops_global_max |-> HOPS_GLOBAL_MAX_DEFAULT,
   enable_overlap_redirect |-> TRUE,
   overlap_prepare_suggest |-> FALSE, overlap_second_accept |-> FALSE,
   on_unknown_sandbox |-> FALSE, query_neighbor_accept |-> FALSE]

NextHop0 == [should_redirect |-> FALSE, target_domain |-> EMPTY, ttl_after |-> 0]
DecisionEx0 == [decision |-> UNKNOWN_SANDBOX, tag |-> BuildTag0, next |-> NextHop0]

match_prefix_hex(hex, prefix) ==
  IF prefix = EMPTY THEN TRUE
  ELSE IF Len(hex) < Len(prefix) THEN FALSE
  ELSE \A i \in 1..Len(prefix) : hex[i] = prefix[i]

match_membership(m, tag) ==
  starts_with(tag.domain, m.domain_prefix) /\ match_prefix_hex(tag.build_hash, m.hash_prefix_hex)

match_allow(a, tag) ==
  starts_with(tag.domain, a.domain_prefix) /\ match_prefix_hex(tag.build_hash, a.hash_prefix_hex)

match_coexist(c, tag) ==
  /\ starts_with(tag.domain, c.domain_prefix)
  /\ match_prefix_hex(tag.build_hash, c.hash_prefix_hex)
  /\ ~(tag.radius_m > c.radius_max_m)
  /\ ~(tag.pclass # PC_UNKNOWN /\ tag.pclass > c.max_class)

match_redirect(r, tag, ttl) ==
  /\ starts_with(tag.domain, r.from_domain_prefix)
  /\ ~(ttl < r.ttl_min \/ ttl > r.ttl_max)

tri_wave(tick) == CASE tick % 3 = 0 -> -1 [] tick % 3 = 1 -> 0 [] OTHER -> 1

bal_from_prox(pc) ==
  CASE pc = PC_LOCAL -> -1 [] pc = PC_NEAR -> 0 [] pc = PC_FAR -> 1 [] OTHER -> 0

unb_from_bal_sum(a, b) ==
  LET s == a + b
  IN (IF s < -1 THEN -1 ELSE IF s > 1 THEN 1 ELSE s) + 1

\* the hashes of the domains of this model, computed once
KnownDomains ==
  {EMPTY, S_a, S_ab, S_abc, S_abd, S_abc1, S_abc2, S_am, S_amx, S_deep, S_zq, S_qr}
DomainHash == [s \in KnownDomains |-> fnv1a64(s)]

seed_from(t) ==
  Xor32(Xor32(DomainHash[t.domain], MulConst32(t.version, GOLDEN_LO32)),
        <<t.radius_m \div 65536, t.radius_m % 65536>>)

\* (seed + add) % n, the seed being 32 bits wide and the sum 64
SeedIndex(seed, add, n) == (((seed[1] % n) * (65536 % n)) + seed[2] + add) % n

Cand(dom, member, rad) ==
  [domain_prefix |-> dom, is_member |-> member, radius_max |-> rad, depth |-> domain_depth(dom)]

collect_known_domains(pol) ==
  [i \in 1..Len(pol.memberships) |->
      Cand(pol.memberships[i].domain_prefix, TRUE, pol.memberships[i].local_radius_m)]
  \o (IF pol.self.domain_prefix # EMPTY
      THEN <<Cand(pol.self.domain_prefix, TRUE, pol.self.local_radius_m)>> ELSE << >>)
  \o [i \in 1..Len(pol.coexist_allow) |->
      Cand(pol.coexist_allow[i].domain_prefix, FALSE, pol.coexist_allow[i].radius_max_m)]

share_root(a, b) == domain_root_of(a) = domain_root_of(b)

overlap_bottom_candidates(pol, tag) ==
  LET known   == collect_known_domains(pol)
      overlap == SelectSeq(known, LAMBDA c : share_root(c.domain_prefix, tag.domain))
      depths  == {overlap[i].depth : i \in 1..Len(overlap)}
      maxd    == CHOOSE d \in depths : \A e \in depths : e <= d
  IN IF overlap = << >> THEN << >>
     ELSE SelectSeq(overlap,
            LAMBDA c : c.depth = maxd /\ (c.is_member \/ tag.radius_m <= c.radius_max))

\* ------------------------------------------------------------ prep cache
Prep(req, target, w) == [requester_domain |-> req, prepared_target |-> target, window |-> w]

\* a lookup that hands back the first entry, whoever it was prepared for
find_prep_first(cache, requester) == IF Len(cache) = 0 THEN 0 ELSE 1

\* index of the first entry for the requester, 0 when there is none
find_prep(cache, requester) ==
  LET hits == {i \in 1..Len(cache) : cache[i].requester_domain = requester}
  IN IF hits = {} THEN 0 ELSE CHOOSE i \in hits : \A j \in hits : i <= j

tick_and_drop_preps(cache) ==
  LET dec == [i \in 1..Len(cache) |->
                IF cache[i].window > 0
                THEN [cache[i] EXCEPT !.window = cache[i].window - 1]
                ELSE cache[i]]
  IN SelectSeq(dec, LAMBDA p : ~(p.window = 0 /\ p.prepared_target = EMPTY))


\* ------------------------------------------------------------ decide_ex
\* cb: what the callbacks return when (and if) decide_ex calls them.
NoCalls == [neighbor |-> FALSE, prepare |-> FALSE, accept |-> FALSE, hook |-> FALSE]

Outcome(R, cache, tick, step, calls, ncands, neighbor) ==
  [R |-> R, cache |-> cache, tick |-> tick, step |-> step, calls |-> calls,
   ncands |-> ncands, neighbor |-> neighbor]

Hooked(pol, calls) == [calls EXCEPT !.hook = pol.on_unknown_sandbox]

RedirectTo(R0, target, ttl_cap) ==
  [R0 EXCEPT !.next = [should_redirect |-> TRUE, target_domain |-> target,
                       ttl_after |-> (ttl_cap - 1) % 256]]

\* mutant: Round 1 redirects at once to the target the neighbour suggested
decide_round1_redirects(pol, cache0, tick, R0, cands, calls, cb) ==
  LET tag == R0.tag
      ok  == pol.overlap_prepare_suggest /\ cb.prep_ok /\ cb.prep_target # EMPTY
  IN Outcome(IF ok THEN RedirectTo(R0, cb.prep_target, Min(tag.route_ttl, pol.ttl_global_max))
             ELSE R0,
             cache0, tick + 1, "round1",
             [calls EXCEPT !.prepare = pol.overlap_prepare_suggest], Len(cands), EMPTY)

\* mutant: Round 1 caches the suggested target without looking at the return value
decide_round1_ignores_ok(pol, cache0, tick, R0, cands, calls, cb) ==
  LET tag    == R0.tag
      p      == find_prep(cache0, tag.domain)
      cache1 == IF pol.overlap_prepare_suggest /\ cb.prep_target # EMPTY
                THEN IF p # 0
                     THEN [cache0 EXCEPT ![p] = Prep(tag.domain, cb.prep_target, PREP_WINDOW)]
                     ELSE Append(cache0, Prep(tag.domain, cb.prep_target, PREP_WINDOW))
                ELSE cache0
  IN Outcome(R0, cache1, tick + 1, "round1",
             [calls EXCEPT !.prepare = pol.overlap_prepare_suggest], Len(cands), EMPTY)

\* TOUR 1: PREP
decide_round1(pol, cache0, tick, R0, cands, calls, cb) ==
  LET tag      == R0.tag
      idx      == SeedIndex(seed_from(tag),
                            unb_from_bal_sum(tri_wave(tick), bal_from_prox(tag.pclass)),
                            Len(cands))
      neighbor == cands[idx + 1].domain_prefix
      p        == find_prep(cache0, tag.domain)
      cache1   == IF pol.overlap_prepare_suggest /\ cb.prep_ok /\ cb.prep_target # EMPTY
                  THEN IF p # 0
                       THEN [cache0 EXCEPT ![p] = Prep(tag.domain, cb.prep_target, PREP_WINDOW)]
                       ELSE Append(cache0, Prep(tag.domain, cb.prep_target, PREP_WINDOW))
                  ELSE cache0
  IN Outcome(R0, cache1, tick + 1, "round1",
             [calls EXCEPT !.prepare = pol.overlap_prepare_suggest], Len(cands), neighbor)

\* mutant: an accepted Round 2 redirects but leaves the preparation in the cache
decide_round2_keeps_prep(pol, cache0, tick, R0, cands, calls, cb, ttl_cap) ==
  LET tag == R0.tag
      p   == find_prep(cache0, tag.domain)
      ok  == IF pol.overlap_second_accept THEN cb.accept_ok ELSE TRUE
      asked == [calls EXCEPT !.accept = pol.overlap_second_accept]
      consumed == [cache0 EXCEPT ![p] = Prep(tag.domain, EMPTY, 0)]
  IN IF p # 0
     THEN IF ok /\ cache0[p].prepared_target # EMPTY
          THEN Outcome(RedirectTo(R0, cache0[p].prepared_target, ttl_cap), cache0,
                       tick + 1, "round2_redirect", asked, Len(cands), EMPTY)
          ELSE Outcome(R0, consumed, tick, "round2_refused", Hooked(pol, asked),
                       Len(cands), EMPTY)
     ELSE Outcome(R0, cache0, tick, "round2_noprep", Hooked(pol, calls), Len(cands), EMPTY)

\* mutant: a refused Round 2 is Sandbox but leaves the preparation in the cache
decide_round2_refusal_keeps(pol, cache0, tick, R0, cands, calls, cb, ttl_cap) ==
  LET tag == R0.tag
      p   == find_prep(cache0, tag.domain)
      ok  == IF pol.overlap_second_accept THEN cb.accept_ok ELSE TRUE
      asked == [calls EXCEPT !.accept = pol.overlap_second_accept]
      consumed == [cache0 EXCEPT ![p] = Prep(tag.domain, EMPTY, 0)]
  IN IF p # 0
     THEN IF ok /\ cache0[p].prepared_target # EMPTY
          THEN Outcome(RedirectTo(R0, cache0[p].prepared_target, ttl_cap), consumed,
                       tick + 1, "round2_redirect", asked, Len(cands), EMPTY)
          ELSE Outcome(R0, cache0, tick, "round2_refused", Hooked(pol, asked),
                       Len(cands), EMPTY)
     ELSE Outcome(R0, cache0, tick, "round2_noprep", Hooked(pol, calls), Len(cands), EMPTY)

\* TOUR 2: ACCEPT
decide_round2(pol, cache0, tick, R0, cands, calls, cb, ttl_cap) ==
  LET tag == R0.tag
      p   == find_prep(cache0, tag.domain)
      ok  == IF pol.overlap_second_accept THEN cb.accept_ok ELSE TRUE
      asked == [calls EXCEPT !.accept = pol.overlap_second_accept]
      consumed == [cache0 EXCEPT ![p] = Prep(tag.domain, EMPTY, 0)]
  IN IF p # 0
     THEN IF ok /\ cache0[p].prepared_target # EMPTY
          THEN Outcome(RedirectTo(R0, cache0[p].prepared_target, ttl_cap), consumed,
                       tick + 1, "round2_redirect", asked, Len(cands), EMPTY)
          ELSE Outcome(R0, consumed, tick, "round2_refused", Hooked(pol, asked),
                       Len(cands), EMPTY)
     ELSE Outcome(R0, cache0, tick, "round2_noprep", Hooked(pol, calls), Len(cands), EMPTY)

\* fallbacks when there is no overlap
decide_fallback(pol, cache0, tick, R0, calls, ttl_cap) ==
  LET tag == R0.tag
      rs  == {i \in 1..Len(pol.redirects) : match_redirect(pol.redirects[i], tag, ttl_cap)}
      ms  == {i \in 1..Len(pol.memberships) :
                ~starts_with(pol.memberships[i].domain_prefix, tag.domain)}
      First(S) == CHOOSE i \in S : \A j \in S : i <= j
  IN IF rs # {}
     THEN Outcome(RedirectTo(R0, pol.redirects[First(rs)].to_domain_prefix, ttl_cap),
                  cache0, tick, "fallback_redirect", calls, 0, EMPTY)
     ELSE IF ms # {}
     THEN Outcome(RedirectTo(R0, pol.memberships[First(ms)].domain_prefix, ttl_cap),
                  cache0, tick, "fallback_member", calls, 0, EMPTY)
     ELSE IF Len(pol.coexist_allow) > 0
     THEN Outcome(RedirectTo(R0, pol.coexist_allow[1].domain_prefix, ttl_cap),
                  cache0, tick, "fallback_coexist", calls, 0, EMPTY)
     ELSE Outcome(R0, cache0, tick, "sandbox", Hooked(pol, calls), 0, EMPTY)

\* 5) controlled redirection (TTL/hops)
decide_route(pol, cache0, tick, R0, calls, cb) ==
  LET tag     == R0.tag
      ttl_cap == Min(tag.route_ttl, pol.ttl_global_max)
      cands   == IF pol.enable_overlap_redirect
                 THEN overlap_bottom_candidates(pol, tag) ELSE << >>
  IN IF ttl_cap > 0 /\ tag.route_hops < pol.hops_global_max
     THEN IF cands # << >>
          THEN IF tag.route_phase < 1
               THEN decide_round1(pol, cache0, tick, R0, cands, calls, cb)
               ELSE decide_round2(pol, cache0, tick, R0, cands, calls, cb, ttl_cap)
          ELSE decide_fallback(pol, cache0, tick, R0, calls, ttl_cap)
     ELSE Outcome(R0, cache0, tick, "sandbox", Hooked(pol, calls), 0, EMPTY)

\* mutant: a failed guard answers REJECT and skips the audit hook
guard_rejects(pol, cache0, tick, R0, step) ==
  Outcome([R0 EXCEPT !.decision = REJECT], cache0, tick, step, NoCalls, 0, EMPTY)

\* mutant: a failed guard advances the rotor
guard_ticks(pol, cache0, tick, R0, step) ==
  Outcome(R0, cache0, tick + 1, step, Hooked(pol, NoCalls), 0, EMPTY)

\* 0) a failed root/depth guard: the hook is told, the default R is returned
guard_failed(pol, cache0, tick, R0, step) ==
  Outcome(R0, cache0, tick, step, Hooked(pol, NoCalls), 0, EMPTY)

decide_ex(pol, cache_in, tick, meta, cb) ==
  LET cache0 == tick_and_drop_preps(cache_in)
      tag    == extract_build_from_meta(meta)
      R0     == [DecisionEx0 EXCEPT !.tag = tag]
      rootOk == \E i \in 1..Len(pol.allowed_roots) : starts_with(tag.domain, pol.allowed_roots[i])
      internal ==
        \/ \E i \in 1..Len(pol.memberships) : match_membership(pol.memberships[i], tag)
        \/ /\ pol.self.domain_prefix # EMPTY
           /\ starts_with(tag.domain, pol.self.domain_prefix)
           /\ match_prefix_hex(tag.build_hash, pol.self.hash_prefix_hex)
      allowed == \E i \in 1..Len(pol.internal_allow) : match_allow(pol.internal_allow[i], tag)
      vis == \/ pol.visual_whitelist_domains = << >>
             \/ \E i \in 1..Len(pol.visual_whitelist_domains) :
                   starts_with(tag.domain, pol.visual_whitelist_domains[i])
      coexist == /\ \E i \in 1..Len(pol.coexist_allow) : match_coexist(pol.coexist_allow[i], tag)
                 /\ vis
      asked  == [NoCalls EXCEPT !.neighbor = pol.query_neighbor_accept]
  IN IF pol.allowed_roots # << >> /\ ~rootOk
     THEN guard_failed(pol, cache0, tick, R0, "root")
     ELSE IF pol.max_depth > 0 /\ domain_depth(tag.domain) > pol.max_depth
     THEN guard_failed(pol, cache0, tick, R0, "depth")
     ELSE IF internal
     THEN Outcome([R0 EXCEPT !.decision = INTERNAL], cache0, tick, "member", NoCalls, 0, EMPTY)
     ELSE IF allowed
     THEN Outcome([R0 EXCEPT !.decision = INTERNAL], cache0, tick, "allow", NoCalls, 0, EMPTY)
     ELSE IF coexist
     THEN Outcome([R0 EXCEPT !.decision = COEXIST_ACCEPTED], cache0, tick, "coexist",
                  NoCalls, 0, EMPTY)
     ELSE IF pol.query_neighbor_accept /\ cb.neighbor_ok
     THEN Outcome([R0 EXCEPT !.decision = COEXIST_ACCEPTED], cache0, tick, "neighbor",
                  asked, 0, EMPTY)
     ELSE decide_route(pol, cache0, tick, R0, asked, cb)

decide(pol, cache_in, tick, meta, cb) == decide_ex(pol, cache_in, tick, meta, cb)


\* the approve adapters: NULL user or NULL meta refuse without deciding
t3p_approve_with_policy(userNull, metaNull, decision) ==
  IF userNull \/ metaNull THEN FALSE
  ELSE decision = INTERNAL \/ decision = COEXIST_ACCEPTED

\* mutant: the adapter lets through everything that is not an outright reject
t3v_approve_not_reject(userNull, metaNull, decision) ==
  IF userNull \/ metaNull THEN FALSE
  ELSE decision # REJECT

t3v_approve_with_policy(userNull, metaNull, decision) ==
  IF userNull \/ metaNull THEN FALSE
  ELSE decision = INTERNAL \/ decision = COEXIST_ACCEPTED

\* ---------------------------------------------------------- route helper
get_uint_best_effort(meta, key) ==
  IF meta.flat[key] # NONE THEN meta.flat[key]
  ELSE IF meta.has_route /\ meta.nested[key] # NONE THEN meta.nested[key]
  ELSE 0

\* route_via / route_next are written too; no reader of this model looks them up
prepare_redirect_meta_phase(meta_in, ttl_after, hops_inc, phase) ==
  IF ttl_after = 0 THEN [ok |-> FALSE, meta |-> meta_in]
  ELSE [ok |-> TRUE,
        meta |-> [meta_in EXCEPT !.flat =
                    [ttl   |-> ttl_after,
                     hops  |-> get_uint_best_effort(meta_in, "hops") + hops_inc,
                     phase |-> IF phase > PHASE_MAX THEN PHASE_MAX ELSE phase]]]

prepare_redirect_meta_prep(meta_in, ttl_after) ==
  prepare_redirect_meta_phase(meta_in, ttl_after, 1, 1)

prepare_redirect_meta_accept(meta_in, ttl_after) ==
  prepare_redirect_meta_phase(meta_in, ttl_after, 1, 2)

\* ------------------------------------------------------- configurations
\* overlap under root "a/": two bottom-tier coexist domains, one member above
PolicyOverlap ==
  [PolicyDefault EXCEPT
     !.allowed_roots = <<S_a>>,
     !.memberships   = <<Membership(S_am, H_ab, 0)>>,
     !.coexist_allow = <<Coexist(S_abc1, H_ff, 10, PC_NEAR), Coexist(S_abc2, H_ff, 10, PC_NEAR)>>,
     !.overlap_prepare_suggest = TRUE, !.overlap_second_accept = TRUE,
     !.on_unknown_sandbox = TRUE, !.query_neighbor_accept = TRUE]

\* the same, without the optional callbacks and with a tighter hop limit
PolicyOverlapBare ==
  [PolicyOverlap EXCEPT
     !.overlap_second_accept = FALSE, !.query_neighbor_accept = FALSE,
     !.on_unknown_sandbox = FALSE, !.hops_global_max = 2,
     !.internal_allow = <<Allow(S_abd, H_ab)>>,
     !.visual_whitelist_domains = <<S_ab>>]

\* no allowed roots, no overlap: explicit redirects, ttl limit below the hop limit
PolicyFallback ==
  [PolicyDefault EXCEPT
     !.max_depth = 0,
     !.self = Membership(S_zq, EMPTY, 0),
     !.redirects = <<Redirect(S_ab, S_qr, 1, 2)>>,
     !.memberships = <<Membership(S_am, H_ff, 0)>>,
     !.ttl_global_max = 2,
     !.enable_overlap_redirect = FALSE,
     !.on_unknown_sandbox = TRUE]

\* overlap switched off, coexist fallback only
PolicyNoOverlap ==
  [PolicyDefault EXCEPT
     !.allowed_roots = <<S_a, S_zq>>,
     !.coexist_allow = <<Coexist(S_abc1, H_ff, 10, PC_NEAR)>>,
     !.enable_overlap_redirect = FALSE,
     !.hops_global_max = 3]

Policies == <<PolicyOverlap, PolicyOverlapBare, PolicyFallback, PolicyNoOverlap>>

Targets == {S_abc1, S_abc2}

\* a callback that is not installed returns nothing
Callbacks(p) ==
  [prep_ok     : IF p.overlap_prepare_suggest THEN BOOLEAN ELSE {FALSE},
   prep_target : IF p.overlap_prepare_suggest THEN Targets \cup {EMPTY} ELSE {EMPTY},
   accept_ok   : IF p.overlap_second_accept THEN BOOLEAN ELSE {FALSE},
   neighbor_ok : IF p.query_neighbor_accept THEN BOOLEAN ELSE {FALSE}]

\* requesters that are taken through the routing rounds
Routed == { <<S_abc, H_ab, EMPTY, NONE>>, <<S_abd, H_ab, EMPTY, NONE>> }

\* requesters settled by the earlier steps, or left without candidates
Settled ==
  { <<S_abc, H_ab, EMPTY, 50>>,     <<S_abc1, H_ff, EMPTY, 5>>,
    <<S_abc1, H_ff, C_far, NONE>>,  <<S_amx, H_ab, C_local, NONE>>,
    <<S_zq, H_ab, EMPTY, NONE>>,    <<S_deep, H_ab, EMPTY, NONE>> }

FlatRoute(t, h, ph) ==
  [flat |-> [ttl |-> t, hops |-> h, phase |-> ph], has_route |-> FALSE, nested |-> NoRoute]

FlatRoutes ==
  { FlatRoute(NONE, NONE, NONE), FlatRoute(MaxTtl, NONE, NONE), FlatRoute(MaxTtl, NONE, 1),
    FlatRoute(1, 5, 0), FlatRoute(2, 1, 2) }

NestedRoutes ==
  { [flat |-> NoRoute, has_route |-> TRUE,
     nested |-> [ttl |-> MaxTtl - 1, hops |-> NONE, phase |-> NONE]],
    [flat |-> NoRoute, has_route |-> TRUE,
     nested |-> [ttl |-> MaxTtl - 1, hops |-> 0, phase |-> 1]],
    [flat |-> [ttl |-> 2, hops |-> NONE, phase |-> 0], has_route |-> TRUE,
     nested |-> [ttl |-> NONE, hops |-> 1, phase |-> NONE]] }

Metas ==
  { MkMeta(id[1], id[2], NONE, id[3], id[4], r.flat, r.has_route, r.nested) :
      id \in Routed, r \in FlatRoutes \cup NestedRoutes }
  \cup
  { MkMeta(id[1], id[2], NONE, id[3], id[4], r.flat, r.has_route, r.nested) :
      id \in Settled, r \in {FlatRoute(NONE, NONE, NONE), FlatRoute(MaxTtl, NONE, NONE)} }

Meta0 == MkMeta(EMPTY, EMPTY, NONE, EMPTY, NONE, NoRoute, FALSE, NoRoute)

\* ------------------------------------------------------------- containers
\* A file is a sequence of bytes.  Word27 is its 32-bit field u, a pair
\* <<hi16, lo16>>; a vector of Word27 is a sequence of such pairs.

\* CRC32, reflected polynomial 0xEDB88320, table driven
Shr1(c) == <<c[1] \div 2, (c[2] \div 2) + ((c[1] % 2) * 32768)>>
Shr8(c) == <<c[1] \div 256, (c[2] \div 256) + ((c[1] % 256) * 256)>>

CRC32_POLY == <<60856, 33568>>
CRC32_ONES == <<65535, 65535>>

RECURSIVE crc32_entry(_, _)
crc32_entry(c, k) ==
  IF k = 0 THEN c
  ELSE crc32_entry(IF c[2] % 2 = 1 THEN Xor32(CRC32_POLY, Shr1(c)) ELSE Shr1(c), k - 1)

crc32_table == [i \in 0..255 |-> crc32_entry(<<0, i>>, 8)]

\* c = table[(c ^ p[i]) & 0xFF] ^ (c >> 8); the guard on c is never true and
\* only keeps the accumulator evaluated byte by byte
RECURSIVE crc32_from(_, _, _)
crc32_from(c, data, i) ==
  IF i > Len(data) \/ c[1] < 0 THEN c
  ELSE crc32_from(Xor32(crc32_table[Xor8(c[2] % 256, data[i])], Shr8(c)), data, i + 1)

crc32_acc(data) == Xor32(crc32_from(CRC32_ONES, data, 1), CRC32_ONES)

\* little-endian images of the fields, as fwrite(&v, sizeof v) stores them
RECURSIVE le_bytes(_, _)
le_bytes(v, n) == IF n = 0 THEN << >> ELSE <<v % 256>> \o le_bytes(v \div 256, n - 1)

le_u32(c) == <<c[2] % 256, c[2] \div 256, c[1] % 256, c[1] \div 256>>

RECURSIVE le_value(_)
le_value(b) == IF b = << >> THEN 0 ELSE b[1] + (256 * le_value(Tail(b)))

u32_le(b) == <<b[3] + (256 * b[4]), b[1] + (256 * b[2])>>

\* the memory image of a vector of Word27, and the vector a buffer holds
RECURSIVE words_bytes(_)
words_bytes(words) ==
  IF words = << >> THEN << >> ELSE le_u32(words[1]) \o words_bytes(Tail(words))

bytes_words(b) == [i \in 1..(Len(b) \div 4) |-> u32_le(SubSeq(b, (4 * i) - 3, 4 * i))]

Zeros(n) == [i \in 1..n |-> 0]

MAGIC_T3P == <<84, 51, 80, 54>>
MAGIC_T3V == <<84, 51, 86, 54>>
CONTAINER_VER == 6
S27 == 27
S24 == 24
S21 == 21
S18 == 18
S15 == 15
SubwordModes == {S27, S24, S21, S18, S15}

\* t3v_io.hpp: the one-byte code of a subword mode, and back
subword_to_code(m) ==
  IF m = S27 THEN 0 ELSE IF m = S24 THEN 1 ELSE IF m = S21 THEN 2
  ELSE IF m = S18 THEN 3 ELSE IF m = S15 THEN 4 ELSE 0

code_to_subword(c) ==
  IF c = 0 THEN S27 ELSE IF c = 1 THEN S24 ELSE IF c = 2 THEN S21
  ELSE IF c = 3 THEN S18 ELSE IF c = 4 THEN S15 ELSE S27

\* the bytes crc32_acc sees in HdrCrcBuf: the fields at their aligned offsets
\* and, between them, padding bytes that the aggregate initialiser leaves
\* indeterminate
HdrCrcBuf(ver_sub, W, H, meta_len, words_count, pad) ==
  ver_sub \o W \o H \o <<pad, pad>> \o meta_len \o <<pad, pad, pad, pad>> \o words_count

HdrBuf(ver_sub, W, H, frame_count, meta_g_len, pad) ==
  ver_sub \o W \o H \o <<pad, pad>> \o frame_count \o meta_g_len \o <<pad, pad, pad, pad>>

\* payload block: the words and their CRC32, a zero CRC when there are none
payload_block(words) ==
  IF words # << >>
  THEN words_bytes(words) \o le_u32(crc32_acc(words_bytes(words)))
  ELSE <<0, 0, 0, 0>>

t3p_write(sub, w, h, words, meta_json, pad) ==
  LET ver_sub == <<CONTAINER_VER, sub % 256>>
      W == le_bytes(w % 65536, 2)
      H == le_bytes(h % 65536, 2)
      meta_len == le_bytes(Len(meta_json), 4)
      words_count == le_bytes(Len(words), 8)
  IN MAGIC_T3P \o ver_sub \o W \o H \o meta_len \o words_count
       \o le_u32(crc32_acc(HdrCrcBuf(ver_sub, W, H, meta_len, words_count, pad)))
       \o meta_json \o payload_block(words)

\* what the reader hands back, and what it did on the way
ReadOut(ret, out_words, approve_called, approve_meta, payload_read, why) ==
  [ret |-> ret, out_words |-> out_words, approve_called |-> approve_called,
   approve_meta |-> approve_meta, payload_read |-> payload_read, why |-> why]

ReadFail(why) == ReadOut(FALSE, << >>, FALSE, << >>, 0, why)

\* fread of n bytes at offset pos (0-based): what the file still has
Take(f, pos, n) ==
  IF pos >= Len(f) THEN << >> ELSE SubSeq(f, pos + 1, Min(pos + n, Len(f)))

\* === Read payload ===: resize, fread into the vector, then the CRC32 checks
read_payload(f, at, words, asked, meta) ==
  LET raw == Take(f, at, 4 * words)
      buf == raw \o Zeros((4 * words) - Len(raw))
      crc == Take(f, at + (4 * words), 4)
      Out(ret, why) == ReadOut(ret, bytes_words(buf), asked, meta, Len(raw), why)
  IN IF words > 0
     THEN IF Len(raw) < 4 * words THEN Out(FALSE, "io")
          ELSE IF Len(crc) < 4 THEN Out(FALSE, "io")
          ELSE IF le_u32(crc32_acc(buf)) # crc THEN Out(FALSE, "payload_crc")
          ELSE Out(TRUE, "ok")
     ELSE IF Len(crc) < 4 THEN Out(FALSE, "io")
          ELSE IF crc # <<0, 0, 0, 0>> THEN Out(FALSE, "payload_crc")
          ELSE Out(TRUE, "ok")

\* mutant: the payload is loaded first and the approve callback asked after
read_record_gate_after(f, pos, meta_len, words, approve) ==
  LET meta == Take(f, pos, meta_len)
      o    == read_payload(f, pos + meta_len, words, approve # "none", meta)
  IN IF Len(meta) < meta_len THEN ReadFail("io")
     ELSE IF approve = "no" THEN [o EXCEPT !.ret = FALSE, !.why = "refused"]
     ELSE o

\* the meta, the approve gate and the payload of one record starting at pos;
\* approve is "none" for an empty std::function, else what the callback answers
read_record(f, pos, meta_len, words, approve) ==
  LET meta  == Take(f, pos, meta_len)
      asked == approve # "none"
  IN IF Len(meta) < meta_len THEN ReadFail("io")
     ELSE IF asked /\ approve = "no" THEN ReadOut(FALSE, << >>, TRUE, meta, 0, "refused")
     ELSE read_payload(f, pos + meta_len, words, asked, meta)

\* header and meta only; the out parameters keep their defaults (S27, no
\* words) when the call fails before the header CRC32 was accepted
t3p_read_header(f, pad) ==
  LET meta_len == le_value(SubSeq(f, 11, 14))
      meta == Take(f, 26, meta_len)
      Bad(why) == [ok |-> FALSE, why |-> why, sub |-> S27, words_count |-> 0,
                   meta |-> << >>]
  IN IF Len(f) < 4 THEN Bad("io")
     ELSE IF SubSeq(f, 1, 4) # MAGIC_T3P THEN Bad("magic")
     ELSE IF Len(f) < 26 THEN Bad("io")
     ELSE IF le_u32(crc32_acc(HdrCrcBuf(SubSeq(f, 5, 6), SubSeq(f, 7, 8), SubSeq(f, 9, 10),
                                        SubSeq(f, 11, 14), SubSeq(f, 15, 22), pad)))
               # SubSeq(f, 23, 26)
     THEN Bad("header_crc")
     ELSE [ok |-> Len(meta) = meta_len,
           why |-> IF Len(meta) = meta_len THEN "ok" ELSE "io",
           sub |-> f[6], words_count |-> le_value(SubSeq(f, 15, 22)),
           meta |-> meta \o Zeros(meta_len - Len(meta))]

t3p_read_payload(f, approve, pad) ==
  IF Len(f) < 4 THEN ReadFail("io")
  ELSE IF SubSeq(f, 1, 4) # MAGIC_T3P THEN ReadFail("magic")
  ELSE IF Len(f) < 26 THEN ReadFail("io")
  ELSE IF le_u32(crc32_acc(HdrCrcBuf(SubSeq(f, 5, 6), SubSeq(f, 7, 8), SubSeq(f, 9, 10),
                                     SubSeq(f, 11, 14), SubSeq(f, 15, 22), pad)))
            # SubSeq(f, 23, 26)
  THEN ReadFail("header_crc")
  ELSE read_record(f, 26, le_value(SubSeq(f, 11, 14)), le_value(SubSeq(f, 15, 22)), approve)

\* frame blocks in file order: per-frame meta (when one is given per frame),
\* words, CRC32
frame_block(frames, metas, i) ==
  (IF Len(metas) = Len(frames) THEN metas[i] ELSE << >>) \o payload_block(frames[i])

RECURSIVE frame_offset(_, _, _, _)
frame_offset(frames, metas, start, i) ==
  IF i = 1 THEN start
  ELSE frame_offset(frames, metas, start, i - 1) + Len(frame_block(frames, metas, i - 1))

RECURSIVE t3v_index(_, _, _, _)
t3v_index(frames, metas, start, i) ==
  IF i > Len(frames) THEN << >>
  ELSE le_bytes(frame_offset(frames, metas, start, i), 8)
         \o le_bytes(Len(frames[i]), 8)
         \o le_bytes(IF Len(metas) = Len(frames) THEN Len(metas[i]) ELSE 0, 4)
         \o t3v_index(frames, metas, start, i + 1)

RECURSIVE t3v_blocks(_, _, _)
t3v_blocks(frames, metas, i) ==
  IF i > Len(frames) THEN << >>
  ELSE frame_block(frames, metas, i) \o t3v_blocks(frames, metas, i + 1)

T3V_HEADER_BYTES == 26
T3V_INDEX_BYTES  == 20

t3v_write(sub, w, h, frames, meta_json_global, metas_per_frame, pad) ==
  LET ver_sub == <<CONTAINER_VER, sub % 256>>
      W == le_bytes(w % 65536, 2)
      H == le_bytes(h % 65536, 2)
      frame_count == le_bytes(Len(frames), 8)
      meta_g_len  == le_bytes(Len(meta_json_global), 4)
      start == T3V_HEADER_BYTES + Len(meta_json_global) + (T3V_INDEX_BYTES * Len(frames))
  IN MAGIC_T3V \o ver_sub \o W \o H \o frame_count \o meta_g_len
       \o le_u32(crc32_acc(HdrBuf(ver_sub, W, H, frame_count, meta_g_len, pad)))
       \o meta_json_global
       \o t3v_index(frames, metas_per_frame, start, 1)
       \o t3v_blocks(frames, metas_per_frame, 1)

\* the index as the first pass writes it: every offset a zero placeholder
RECURSIVE t3v_placeholders(_, _, _)
t3v_placeholders(frames, metas, i) ==
  IF i > Len(frames) THEN << >>
  ELSE le_bytes(0, 8)
         \o le_bytes(Len(frames[i]), 8)
         \o le_bytes(IF Len(metas) = Len(frames) THEN Len(metas[i]) ELSE 0, 4)
         \o t3v_placeholders(frames, metas, i + 1)

\* what t3v_write has emitted once the frames are out and the first j index
\* entries have been rewritten; full is the file of the completed write
t3v_rewritten(full, frames, metas, meta_g_len, j) ==
  LET ipos == T3V_HEADER_BYTES + meta_g_len
  IN SubSeq(full, 1, ipos + (T3V_INDEX_BYTES * j))
       \o t3v_placeholders(frames, metas, j + 1)
       \o SubSeq(full, ipos + (T3V_INDEX_BYTES * Len(frames)) + 1, Len(full))

\* a stream whose writer stamps another container version: that version byte
\* and the header CRC32 taken over the header that carries it
other_version(f, kind, ver, pad) ==
  LET crc == IF kind = "t3p"
             THEN crc32_acc(HdrCrcBuf(<<ver, f[6]>>, SubSeq(f, 7, 8), SubSeq(f, 9, 10),
                                      SubSeq(f, 11, 14), SubSeq(f, 15, 22), pad))
             ELSE crc32_acc(HdrBuf(<<ver, f[6]>>, SubSeq(f, 7, 8), SubSeq(f, 9, 10),
                                   SubSeq(f, 11, 18), SubSeq(f, 19, 22), pad))
  IN SubSeq(f, 1, 4) \o <<ver>> \o SubSeq(f, 6, 22) \o le_u32(crc)
       \o SubSeq(f, 27, Len(f))

\* header, global meta and index; ok is FALSE with the reason when it fails
t3v_read_header(f, pad) ==
  LET fc   == le_value(SubSeq(f, 11, 18))
      mg   == le_value(SubSeq(f, 19, 22))
      ipos == T3V_HEADER_BYTES + mg
      Entry(i) == LET e == Take(f, ipos + (T3V_INDEX_BYTES * (i - 1)), T3V_INDEX_BYTES)
                  IN [offset   |-> le_value(SubSeq(e, 1, 8)),
                      words    |-> le_value(SubSeq(e, 9, 16)),
                      meta_len |-> le_value(SubSeq(e, 17, 20))]
      Bad(why) == [ok |-> FALSE, why |-> why, sub |-> S27, frame_count |-> 0,
                   index |-> << >>]
  IN IF Len(f) < 4 THEN Bad("io")
     ELSE IF SubSeq(f, 1, 4) # MAGIC_T3V THEN Bad("magic")
     ELSE IF Len(f) < T3V_HEADER_BYTES THEN Bad("io")
     ELSE IF le_u32(crc32_acc(HdrBuf(SubSeq(f, 5, 6), SubSeq(f, 7, 8), SubSeq(f, 9, 10),
                                     SubSeq(f, 11, 18), SubSeq(f, 19, 22), pad)))
               # SubSeq(f, 23, 26)
     THEN Bad("header_crc")
     ELSE IF Len(f) < ipos + (T3V_INDEX_BYTES * fc) THEN Bad("io")
     ELSE [ok |-> TRUE, why |-> "ok", sub |-> f[6], frame_count |-> fc,
           index |-> [i \in 1..fc |-> Entry(i)]]

t3v_read_frame(f, frame_idx, approve, pad) ==
  LET hdr == t3v_read_header(f, pad)
  IN IF ~hdr.ok THEN ReadFail(hdr.why)
     ELSE IF frame_idx >= hdr.frame_count THEN ReadFail("frame_idx")
     ELSE LET fi == hdr.index[frame_idx + 1]
          IN read_record(f, fi.offset, fi.meta_len, fi.words, approve)

\* ------------------------------------------------------------------ GF(27)
\* GF27 elements are 0..26, three base-3 digits; reduction x^3 = x + 2.
RS_N == 26

\* the C++ % operator: the result takes the sign of the dividend
CMod(a, m) == IF a >= 0 THEN a % m ELSE -((-a) % m)

\* the three base-3 digits of an element
tr0(a) == a % 3
tr1(a) == (a \div 3) % 3
tr2(a) == (a \div 9) % 3

gf27_add(a, b) ==
  ((tr0(a) + tr0(b)) % 3) + 3 * ((tr1(a) + tr1(b)) % 3) + 9 * ((tr2(a) + tr2(b)) % 3)

gf27_sub(a, b) ==
  LET s(x, y) == LET z == CMod(x - y, 3) IN IF z < 0 THEN z + 3 ELSE z
  IN s(tr0(a), tr0(b)) + 3 * s(tr1(a), tr1(b)) + 9 * s(tr2(a), tr2(b))

gf27_mul_poly(a, b) ==
  IF a = 0 \/ b = 0 THEN 0
  ELSE LET a0 == tr0(a)  a1 == tr1(a)  a2 == tr2(a)
           b0 == tr0(b)  b1 == tr1(b)  b2 == tr2(b)
           r3 == (a1 * b2 + a2 * b1) % 3
           r4 == (a2 * b2) % 3
           r0 == (((a0 * b0) % 3) + 2 * r3) % 3
           r1 == (((((a0 * b1 + a1 * b0) % 3) + r3) % 3) + 2 * r4) % 3
           r2 == (((a0 * b2 + a1 * b1 + a2 * b0) % 3) + r4) % 3
       IN r0 + 3 * r1 + 9 * r2

\* GF27Context::order_of: the first i in 1..26 with g^i = 1, else -1
RECURSIVE order_from(_, _, _)
order_from(g, x, i) ==
  IF i > 26 THEN -1
  ELSE IF gf27_mul_poly(x, g) = 1 THEN i
  ELSE order_from(g, gf27_mul_poly(x, g), i + 1)

order_of(g) == IF g = 0 \/ g = 1 THEN -1 ELSE order_from(g, 1, 1)

\* GF27Context::init: the tables
tab_primitive ==
  LET P == {c \in 2..26 : order_of(c) = 26}
  IN IF P = {} THEN 3 ELSE CHOOSE c \in P : \A d \in P : c <= d

tab_exp ==
  LET e[i \in 0..25] == IF i = 0 THEN 1 ELSE gf27_mul_poly(e[i - 1], tab_primitive)
  IN [i \in 0..77 |-> e[i % 26]]

tab_log ==
  [a \in 0..26 |->
     IF \E i \in 0..25 : tab_exp[i] = a
     THEN CHOOSE i \in 0..25 : tab_exp[i] = a /\ \A j \in 0..25 : tab_exp[j] = a => j <= i
     ELSE -1]

tab_mul == [a \in 0..26 |-> [b \in 0..26 |-> gf27_mul_poly(a, b)]]

tab_inv == [a \in 0..26 |-> IF a = 0 THEN 0 ELSE tab_exp[(26 - tab_log[a]) % 26]]

gf_add(a, b) == gf27_add(a, b)
gf_sub(a, b) == gf27_sub(a, b)
gf_mul(a, b) == tab_mul[a][b]
gf_inv(a)    == tab_inv[a]
pow_alpha(e) == tab_exp[(CMod(e, 26) + 26) % 26]

\* ---------------------------------------------------------------- RS(26,k)
\* Vectors are sequences: C++ index i is position i + 1.

\* a std::vector holding the values of f
Vec(f) == SubSeq(f, 1, Len(f))

\* RSCodec::build_gen: g after the factors for alpha^1 .. alpha^i
RECURSIVE gen_from(_, _, _)
gen_from(g, i, r) ==
  IF i > r \/ g = << >> THEN g
  ELSE LET root == pow_alpha(i)
           G(j) == IF j >= 1 /\ j <= Len(g) THEN g[j] ELSE 0
       IN gen_from([j \in 1..(Len(g) + 1) |-> gf_sub(G(j - 1), gf_mul(G(j), root))],
                   i + 1, r)

build_gen(k) == gen_from(<<1>>, 1, RS_N - k)

\* the generator of each profile, built once
RS_KS == {24, 22, 20, 18}
rs_g == [k \in RS_KS |-> build_gen(k)]

\* RSCodec::encode_block: the division loop over T, rows i .. k-1
RECURSIVE encode_from(_, _, _)
encode_from(T, i, k) ==
  IF i >= k \/ T = << >> THEN T
  ELSE LET coef == T[i + 1]
           g == rs_g[k]
       IN encode_from(IF coef = 0 THEN T
                      ELSE [x \in 1..RS_N |->
                              IF x - 1 >= i /\ x - 1 <= i + (RS_N - k)
                              THEN gf_sub(T[x], gf_mul(g[x - i], coef))
                              ELSE T[x]],
                      i + 1, k)

encode_block(k, data_k) ==
  LET T == encode_from([x \in 1..RS_N |-> IF x <= k THEN data_k[x] ELSE 0], 0, k)
  IN Vec([x \in 1..RS_N |-> IF x <= k THEN data_k[x] ELSE T[x]])

\* RSCodec::poly_eval, also the Horner loops written out in decode_block
RECURSIVE horner(_, _, _, _)
horner(p, x, d, acc) ==
  IF d < 1 \/ acc < 0 THEN acc
  ELSE horner(p, x, d - 1, gf_add(gf_mul(acc, x), p[d]))

poly_eval(p, x) == horner(p, x, Len(p), 0)

\* decode_block, syndrome S[j-1]: sum over i of inout_n[i] * alpha^((j*i) % 26)
RECURSIVE syndrome_from(_, _, _, _)
syndrome_from(buf, j, i, acc) ==
  IF i >= RS_N \/ acc < 0 THEN acc
  ELSE syndrome_from(buf, j, i + 1,
                     gf_add(acc, gf_mul(buf[i + 1], pow_alpha(CMod(j * i, 26)))))

syndromes(k, buf) == [j \in 1..(RS_N - k) |-> syndrome_from(buf, j, 0, 0)]

\* decode_block, Berlekamp-Massey: the discrepancy of round nS
RECURSIVE delta_from(_, _, _, _, _, _)
delta_from(S, sigma, L, nS, i, acc) ==
  IF i > L \/ acc < 0 THEN acc
  ELSE delta_from(S, sigma, L, nS, i + 1,
                  IF i < Len(sigma) THEN gf_add(acc, gf_mul(sigma[i + 1], S[nS - i + 1]))
                  ELSE acc)

\* one round of the loop over nS; st = [sigma, B, L, m]
bm_step(S, st, nS) ==
  LET delta == delta_from(S, st.sigma, st.L, nS, 1, S[nS + 1])
      nd == IF Len(st.sigma) >= st.m + Len(st.B) THEN Len(st.sigma) ELSE st.m + Len(st.B)
      xmdB(i) == IF i > st.m /\ i <= st.m + Len(st.B) THEN gf_mul(delta, st.B[i - st.m]) ELSE 0
      ns == [i \in 1..nd |-> gf_sub(IF i <= Len(st.sigma) THEN st.sigma[i] ELSE 0, xmdB(i))]
  IN IF delta # 0
     THEN IF 2 * st.L <= nS
          THEN [sigma |-> ns,
                B |-> [i \in 1..Len(st.sigma) |-> gf_mul(st.sigma[i], gf_inv(delta))],
                L |-> nS + 1 - st.L, m |-> 1]
          ELSE [st EXCEPT !.sigma = ns, !.m = st.m + 1]
     ELSE [st EXCEPT !.m = st.m + 1]

RECURSIVE bm_from(_, _, _, _)
bm_from(S, st, nS, r) ==
  IF nS >= r \/ st.sigma = << >> \/ st.B = << >> THEN st
  ELSE bm_from(S, bm_step(S, st, nS), nS + 1, r)

berlekamp_massey(S) ==
  bm_from(S, [sigma |-> <<1>>, B |-> <<1>>, L |-> 0, m |-> 1], 0, Len(S)).sigma

\* Omega = (S(x) * sigma(x)) cut to r coefficients
RECURSIVE omega_coef(_, _, _, _, _)
omega_coef(S, sigma, d, j, acc) ==
  IF j > Len(sigma) \/ j > d \/ acc < 0 THEN acc
  ELSE omega_coef(S, sigma, d, j + 1, gf_add(acc, gf_mul(S[d - j + 1], sigma[j])))

omega_of(S, sigma) == [d \in 1..Len(S) |-> omega_coef(S, sigma, d, 1, 0)]

\* Chien search: the positions i, ascending, with sigma(alpha^(-i)) = 0
sigma_root(sigma, i) == horner(sigma, pow_alpha(CMod(-i, 26)), Len(sigma), 0) = 0

RECURSIVE err_pos_from(_, _, _)
err_pos_from(sigma, i, acc) ==
  IF i >= RS_N \/ Len(acc) < 0 THEN acc
  ELSE err_pos_from(sigma, i + 1, IF sigma_root(sigma, i) THEN Append(acc, i) ELSE acc)

\* the formal derivative of sigma in characteristic 3
sigmap_of(sigma) ==
  IF Len(sigma) >= 2
  THEN [x \in 1..(Len(sigma) - 1) |->
          IF x % 3 = 0 THEN 0
          ELSE IF x % 3 = 1 THEN sigma[x + 1]
          ELSE ((2 * tr0(sigma[x + 1])) % 3) + 3 * ((2 * tr1(sigma[x + 1])) % 3)
                 + 9 * ((2 * tr2(sigma[x + 1])) % 3)]
  ELSE <<0>>

\* Forney loop over err_pos: each position is corrected in place as it is
\* reached; a zero denominator returns false with the earlier ones corrected
RECURSIVE forney_from(_, _, _, _, _, _)
forney_from(buf, Omega, sigmap, err_pos, e, entry) ==
  IF e > Len(err_pos) THEN [ok |-> TRUE, buf |-> buf]
  ELSE LET pos == err_pos[e]
           Xin == pow_alpha(CMod(-pos, 26))
           num == horner(Omega, Xin, Len(Omega), 0)
           den == horner(sigmap, Xin, Len(sigmap), 0)
           mag == gf_mul(gf_sub(0, num), gf_inv(den))
       IN IF den = 0 THEN [ok |-> FALSE, buf |-> buf]
          ELSE forney_from([buf EXCEPT ![pos + 1] = gf_add(buf[pos + 1], mag)],
                           Omega, sigmap, err_pos, e + 1, entry)

\* what decode_block leaves: return value, inout_n, out_k, and how it got there
DecodeOut(ok, buf, out_k, why, err_pos) ==
  [ok |-> ok, buf |-> buf, out_k |-> out_k, why |-> why, err_pos |-> err_pos]

decode_with(k, inout_n, out_k, S, sigma) ==
  LET err_pos == err_pos_from(sigma, 0, << >>)
      F == forney_from(inout_n, omega_of(S, sigma), sigmap_of(sigma), err_pos, 1, inout_n)
  IN IF Len(err_pos) > (RS_N - k) \div 2
     THEN DecodeOut(FALSE, inout_n, out_k, "roots", err_pos)
     ELSE IF ~F.ok THEN DecodeOut(FALSE, F.buf, out_k, "den", err_pos)
     ELSE DecodeOut(TRUE, F.buf, SubSeq(F.buf, 1, k), "corrected", err_pos)

decode_block(k, inout_n, out_k) ==
  LET S == syndromes(k, inout_n)
  IN IF \A j \in 1..Len(S) : S[j] = 0
     THEN DecodeOut(TRUE, inout_n, SubSeq(inout_n, 1, k), "clean", << >>)
     ELSE decode_with(k, inout_n, out_k, S, berlekamp_massey(S))

\* ------------------------------------------------- superframe header, CRC-12
pack3(a, b, c) == a + 3 * b + 9 * c
unpack3(s) == <<tr0(s), tr1(s), tr2(s)>>

CRC3_L == 12

\* mutant: the register ignores the message trit
crc3_step_blind(r, in) ==
  LET fb == r[CRC3_L]
  IN <<fb, r[1], r[2], (r[3] + fb) % 3, (r[4] + fb) % 3, r[5], r[6],
       (r[7] + fb) % 3, r[8], r[9], r[10], r[11]>>

\* CRC3::rem12, the step lambda: r[i] of the source is r[i + 1] here
crc3_step(r, in) ==
  LET fb == (in + r[CRC3_L]) % 3
  IN <<fb, r[1], r[2], (r[3] + fb) % 3, (r[4] + fb) % 3, r[5], r[6],
       (r[7] + fb) % 3, r[8], r[9], r[10], r[11]>>

RECURSIVE rem12_from(_, _, _, _)
rem12_from(msg, r, i, flush) ==
  IF r[1] < 0 THEN r
  ELSE IF i <= Len(msg) THEN rem12_from(msg, crc3_step(r, msg[i]), i + 1, flush)
  ELSE IF flush > 0 THEN rem12_from(msg, crc3_step(r, 0), i, flush - 1)
  ELSE r

rem12(msg) == rem12_from(msg, [i \in 1..CRC3_L |-> 0], 1, CRC3_L)

\* the indices HeaderCodec's push lambda lets through: all but 20, 21, 22, 26
CrcCovered == <<0, 1, 2, 3, 4, 5, 6, 7, 8, 9, 10, 11, 12, 13, 14, 15, 16, 17, 18, 19,
                23, 24, 25>>

\* the trits pushed for a pack p (p[i + 1] is symbols[i])
crc_trits(p) ==
  [x \in 1..(3 * Len(CrcCovered)) |->
     unpack3(p[CrcCovered[((x - 1) \div 3) + 1] + 1])[((x - 1) % 3) + 1]]

\* ProfileID values
RAW_MODE == 255
P1_RS26_24 == 0
P2_RS26_22 == 1
P3_RS26_20 == 2
P4_RS26_18 == 3
P5_RS26_22_2D == 4

\* SuperframeHeader with its default member values
SuperframeHeader0 ==
  [magic |-> 162, version |-> 1, profile |-> P2_RS26_22,
   uep |-> [i \in 1..9 |-> 0], tile |-> [w |-> 0, h |-> 0],
   seed |-> [a |-> 1, b |-> 1, s0 |-> 1],
   band_map_hash |-> 0, frame_seq |-> 0, reserved |-> 0, crc3m |-> 0,
   beacon |-> [words_period |-> 0, band_slot |-> 0, enabled |-> FALSE],
   subword |-> 27, centered |-> TRUE, coset |-> 0]

sub_code(subword) ==
  CASE subword = 27 -> 0 [] subword = 24 -> 1 [] subword = 21 -> 2
    [] subword = 18 -> 3 [] subword = 15 -> 4 [] OTHER -> 0

\* HeaderCodec::pack before the CRC symbols are filled in
pack_fields(h) ==
  LET u(a) == ((h.uep[a] % 3) * 3 + (h.uep[a + 1] % 3)) * 3 + (h.uep[a + 2] % 3)
      pmin == IF h.beacon.words_period < 26 THEN h.beacon.words_period ELSE 26
  IN <<h.magic % 27, (h.magic \div 27) % 27, h.version % 27, h.profile % 27,
       u(1) % 27, u(4) % 27, u(7) % 27,
       h.tile.w % 27, h.tile.h % 27, h.seed.a % 27, h.seed.b % 27, h.seed.s0 % 27,
       (sub_code(h.subword) + 9 * (IF h.centered THEN 1 ELSE 0)) % 27,
       h.band_map_hash % 27, (h.band_map_hash \div 27) % 27,
       (h.band_map_hash \div 729) % 27,
       (h.coset % 3) % 27,
       h.frame_seq % 27, (h.frame_seq \div 27) % 27, (h.frame_seq \div 729) % 27,
       0, 0, 0,
       IF h.beacon.enabled THEN 1 ELSE 0, h.beacon.band_slot % 27, pmin % 27, 0>>

HeaderCodec_pack(h) ==
  LET p == pack_fields(h)
      r == rem12(crc_trits(p))
      RSym(i) == pack3(r[i * 3 + 1], r[i * 3 + 2], r[i * 3 + 3]) % 27
  IN [p EXCEPT ![21] = RSym(0), ![22] = RSym(1), ![23] = RSym(2), ![27] = RSym(3)]

HeaderCodec_check(p) ==
  rem12(crc_trits(p)) = unpack3(p[21]) \o unpack3(p[22]) \o unpack3(p[23]) \o unpack3(p[27])

\* ------------------------------------------------------- profile pipeline
\* A Word27 is a sequence of 9 symbols; streams are sequences of symbols.
SYM_PER_WORD == 9
NUM_BANDS == 9
RAW_TRITS == 26
HDR_WORDS == 6
HDR_DATA == 18

\* concatenation of the sequences f[1] .. f[n]
RECURSIVE Flatten(_, _, _)
Flatten(f, i, acc) ==
  IF i > Len(f) \/ Len(acc) < 0 THEN acc ELSE Flatten(f, i + 1, acc \o f[i])

\* the symbols of a word vector, word after word
word_symbols(words) ==
  [x \in 1..(SYM_PER_WORD * Len(words)) |->
     words[((x - 1) \div SYM_PER_WORD) + 1][((x - 1) % SYM_PER_WORD) + 1]]

\* encode_profile_from_raw, the carry loop: the first 26 trits of every word,
\* one word after the other, cut into symbols; the last symbol is zero-filled
raw_trit(in, x) ==
  LET w == in[((x - 1) \div RAW_TRITS) + 1]
      i == (x - 1) % RAW_TRITS
  IN unpack3(w[(i \div 3) + 1])[(i % 3) + 1]

raw_to_symbols(in) ==
  LET nt == RAW_TRITS * Len(in)
      T(x) == IF x <= nt THEN raw_trit(in, x) ELSE 0
  IN Vec([s \in 1..((nt + 2) \div 3) |-> pack3(T(3 * s - 2), T(3 * s - 1), T(3 * s))])

\* interleave2D_boustrophedon: the source index (from 0) that lands at output
\* index x (from 0) of a chunk holding `take` symbols, rows of width w
RECURSIVE boustro_order(_, _, _, _, _)
boustro_order(w, h, take, r, acc) ==
  IF r >= h \/ Len(acc) < 0 THEN acc
  ELSE LET row == IF r % 2 = 0
                  THEN [c \in 1..w |-> r * w + (c - 1)]
                  ELSE [c \in 1..w |-> r * w + (w - c)]
       IN boustro_order(w, h, take, r + 1,
                        acc \o SelectSeq(row, LAMBDA idx : idx < take))

chunk_order(tile, take) == boustro_order(tile.w, tile.h, take, 0, << >>)

interleave2D_boustrophedon(syms, tile) ==
  IF tile.w = 0 \/ tile.h = 0 THEN syms
  ELSE LET A == tile.w * tile.h
           take(c) == IF Len(syms) - c * A < A THEN Len(syms) - c * A ELSE A
       IN Vec([x \in 1..Len(syms) |->
                 LET c == (x - 1) \div A
                 IN syms[c * A + chunk_order(tile, take(c))[((x - 1) % A) + 1] + 1]])

\* a deinterleaver that undoes complete tiles only and takes a partial final
\* tile as it comes
deinterleave_complete_tiles(syms, tile) ==
  IF tile.w = 0 \/ tile.h = 0 THEN syms
  ELSE LET A == tile.w * tile.h
       IN Vec([x \in 1..Len(syms) |->
                 LET c == (x - 1) \div A
                     ord == chunk_order(tile, A)
                     k == CHOOSE k \in 1..Len(ord) : ord[k] = (x - 1) % A
                 IN IF Len(syms) - c * A < A THEN syms[x] ELSE syms[c * A + k]])

deinterleave2D_boustrophedon(syms, tile) ==
  IF tile.w = 0 \/ tile.h = 0 THEN syms
  ELSE LET A == tile.w * tile.h
           take(c) == IF Len(syms) - c * A < A THEN Len(syms) - c * A ELSE A
       IN Vec([x \in 1..Len(syms) |->
                 LET c == (x - 1) \div A
                     ord == chunk_order(tile, take(c))
                     k == CHOOSE k \in 1..Len(ord) : ord[k] = (x - 1) % A
                 IN syms[c * A + k]])

\* scramble_symbol / descramble_symbol: the state after the step, the symbol out
lcg_step(seed, st) == ((seed.a * st) + seed.b) % 3

scramble_symbol(s, seed, st) ==
  LET n == lcg_step(seed, st)
  IN [st |-> n, s |-> pack3((tr0(s) + n) % 3, (tr1(s) + n) % 3, (tr2(s) + n) % 3)]

descramble_symbol(s, seed, st) ==
  LET n == lcg_step(seed, st)
  IN [st |-> n,
      s |-> pack3((3 + tr0(s) - (n % 3)) % 3, (3 + tr1(s) - (n % 3)) % 3,
                  (3 + tr2(s) - (n % 3)) % 3)]

\* the scrambler states st takes over a run of n symbols, from st0
RECURSIVE lcg_states(_, _, _, _)
lcg_states(seed, st, n, acc) ==
  IF n <= 0 \/ st < 0 \/ Len(acc) < 0 THEN acc
  ELSE lcg_states(seed, lcg_step(seed, st), n - 1, Append(acc, lcg_step(seed, st)))

\* the same run of states for long runs, taken in two halves
RECURSIVE lcg_run(_, _, _)
lcg_run(seed, st, n) ==
  IF n <= 32 \/ st < 0 THEN lcg_states(seed, st, n, << >>)
  ELSE LET h == lcg_run(seed, st, n \div 2)
       IN h \o lcg_run(seed, h[Len(h)], n - (n \div 2))

encode_beacon_symbol(b) ==
  (b.profile + 5 * (b.frame_seq_mod % 5) + 15 * (b.health_flags % 3)) % 27

\* uep_uniform(u, idx)
uep_uniform(idx) == [i \in 1..NUM_BANDS |-> idx % 4]

\* EncoderConfig with its default member values; EncoderContext() sets the
\* layout to uep_uniform(cfg.uep, 1)
EncoderConfig0 ==
  [profile |-> P2_RS26_22, uep |-> uep_uniform(1), tile |-> [w |-> 0, h |-> 0],
   seed |-> [a |-> 1, b |-> 1, s0 |-> 1],
   beacon |-> [words_period |-> 0, band_slot |-> 0, enabled |-> FALSE],
   superframe_words |-> 8192, subword |-> 27, centered |-> TRUE, coset |-> 0]

\* bands[i % 9].push_back(sy[i]): band b (from 0) of a symbol stream
band_of(sy, b) ==
  [j \in 1..((Len(sy) - b + (NUM_BANDS - 1)) \div NUM_BANDS) |-> sy[(j - 1) * NUM_BANDS + b + 1]]

\* rsc_for(b): the k of the codec picked by band_profile[b] % 4
rsc_for(uep, b) ==
  CASE uep[b + 1] % 4 = 0 -> 24 [] uep[b + 1] % 4 = 1 -> 22
    [] uep[b + 1] % 4 = 2 -> 20 [] OTHER -> 18

\* the encoder's loop over one band: every complete block of k symbols becomes
\* n symbols; what is left of the band after the last complete block is dropped
encode_band(k, band) ==
  Flatten([j \in 1..(Len(band) \div k) |->
             encode_block(k, SubSeq(band, (j - 1) * k + 1, j * k))], 1, << >>)

encode_bands(sy, uep) ==
  Flatten([b1 \in 1..NUM_BANDS |-> encode_band(rsc_for(uep, b1 - 1), band_of(sy, b1 - 1))],
          1, << >>)

\* for (auto& s : body) s = scramble_symbol(s, seed, st), st from s0 % 3
scramble_body(body, seed) ==
  LET sts == lcg_run(seed, seed.s0 % 3, Len(body))
      before(i) == IF i = 1 THEN seed.s0 % 3 ELSE sts[i - 1]
  IN Vec([i \in 1..Len(body) |-> scramble_symbol(body[i], seed, before(i)).s])

\* the beacon insertion loop: word after word, slot after slot; bsym is what a
\* beacon slot receives and pad what a slot receives once the body ran out
RECURSIVE insert_beacons(_, _, _, _, _, _, _)
insert_beacons(body, beacon, bsym, pad, word_idx, k, acc) ==
  IF k >= Len(body) \/ Len(acc) < 0 THEN acc
  ELSE LET ins == (word_idx % beacon.words_period) = 0
           nb(slot) == IF ins /\ beacon.band_slot < slot THEN slot - 1 ELSE slot
           word == [s1 \in 1..SYM_PER_WORD |->
                      IF ins /\ (s1 - 1) = beacon.band_slot THEN bsym
                      ELSE IF k + nb(s1 - 1) < Len(body) THEN body[k + nb(s1 - 1) + 1]
                      ELSE pad]
           used == IF ins /\ beacon.band_slot < SYM_PER_WORD
                   THEN SYM_PER_WORD - 1 ELSE SYM_PER_WORD
           k2 == IF k + used < Len(body) THEN k + used ELSE Len(body)
       IN insert_beacons(body, beacon, bsym, pad, word_idx + 1, k2, acc \o Vec(word))

with_beacons(body, cfg, bsym, pad) ==
  IF cfg.beacon.enabled /\ cfg.beacon.words_period > 0
  THEN insert_beacons(body, cfg.beacon, bsym, pad, 0, 0, << >>)
  ELSE body

\* the header the encoder fills from its configuration
header_of(cfg) ==
  [SuperframeHeader0 EXCEPT
     !.profile = cfg.profile, !.uep = cfg.uep, !.tile = cfg.tile, !.seed = cfg.seed,
     !.beacon = cfg.beacon, !.subword = cfg.subword, !.centered = cfg.centered,
     !.coset = cfg.coset]

\* all[] cut into words of 9 symbols, the last word zero-filled
to_words(all) ==
  [w \in 1..((Len(all) + 8) \div SYM_PER_WORD) |->
     [s1 \in 1..SYM_PER_WORD |->
        IF (w - 1) * SYM_PER_WORD + s1 <= Len(all)
        THEN all[(w - 1) * SYM_PER_WORD + s1] ELSE 0]]

\* encode_profile_from_raw, stage after stage. Besides the words it returns,
\* the record keeps the intermediate vectors of the function: sy (after the
\* interleaver), rs_body (after the band codecs), scr (after the scrambler),
\* body (after the beacons), encA/encB (the header blocks), body_at (the index
\* in all[] of the first body symbol), and src, which names for every symbol
\* of body the index in scr it was taken from (0: a beacon or padding)
enc_emit(cfg, sy, rs_body, scr, body, encA, encB, words) ==
  [words |-> Vec([w \in 1..Len(words) |-> Vec(words[w])]),
   sy |-> sy, rs_body |-> rs_body, scr |-> scr, body |-> body,
   src |-> with_beacons([i \in 1..Len(scr) |-> i], cfg, 0, 0),
   encA |-> encA, encB |-> encB, body_at |-> Len(encA) + Len(encB)]

enc_pack(cfg, sy, rs_body, scr, body, encA, encB) ==
  enc_emit(cfg, sy, rs_body, scr, body, encA, encB, to_words(encA \o encB \o body))

\* A = hp.symbols[0..17], B = hp.symbols[18..26] and nine zeros, each encoded
\* by rs_hdr
enc_header(cfg, sy, rs_body, scr, body, hp) ==
  enc_pack(cfg, sy, rs_body, scr, body,
           encode_block(HDR_DATA, SubSeq(hp, 1, 18)),
           encode_block(HDR_DATA, SubSeq(hp, 19, 27) \o [i \in 1..9 |-> 0]))

enc_beacons(cfg, sy, rs_body, scr) ==
  enc_header(cfg, sy, rs_body, scr,
             with_beacons(scr, cfg,
                          encode_beacon_symbol([profile |-> cfg.profile,
                                                frame_seq_mod |-> cfg.superframe_words % 5,
                                                health_flags |-> 0]), 0),
             HeaderCodec_pack(header_of(cfg)))

enc_scramble(cfg, sy, rs_body) ==
  enc_beacons(cfg, sy, rs_body, scramble_body(rs_body, cfg.seed))

enc_bands(cfg, sy) == enc_scramble(cfg, sy, encode_bands(sy, cfg.uep))

enc_interleave(cfg, sy0) ==
  enc_bands(cfg, IF cfg.profile = P5_RS26_22_2D /\ cfg.tile.w # 0 /\ cfg.tile.h # 0
                 THEN interleave2D_boustrophedon(sy0, cfg.tile) ELSE sy0)

encode_profile_from_raw(in, cfg) ==
  IF cfg.profile = RAW_MODE
  THEN [words |-> in, sy |-> << >>, rs_body |-> << >>, scr |-> << >>, body |-> << >>,
        src |-> << >>, encA |-> << >>, encB |-> << >>, body_at |-> 0]
  ELSE enc_interleave(cfg, raw_to_symbols(in))

\* HeaderCodec::unpack
HeaderCodec_unpack(p) ==
  LET rd(i) == p[i + 1] % 27
      dec3(v) == <<v % 3, (v \div 3) % 3, (v \div 9) % 3>>
      sub == (rd(12) % 27) % 9
  IN [magic |-> rd(0) + 27 * rd(1), version |-> rd(2), profile |-> rd(3) % 5,
      uep |-> dec3(rd(4)) \o dec3(rd(5)) \o dec3(rd(6)),
      tile |-> [w |-> rd(7), h |-> rd(8)],
      seed |-> [a |-> rd(9), b |-> rd(10), s0 |-> rd(11)],
      band_map_hash |-> rd(13) + 27 * rd(14) + 729 * rd(15),
      frame_seq |-> rd(17) + 27 * rd(18) + 729 * rd(19),
      reserved |-> 0, crc3m |-> 0,
      beacon |-> [words_period |-> rd(25), band_slot |-> rd(24) % 9,
                  enabled |-> rd(23) # 0],
      subword |-> CASE sub = 1 -> 24 [] sub = 2 -> 21 [] sub = 3 -> 18
                    [] sub = 4 -> 15 [] OTHER -> 27,
      centered |-> ((rd(12) % 27) \div 9) % 3 # 0,
      coset |-> rd(16) % 3]

\* what read_and_decode_header_from_words leaves: ok, the header, the cursor,
\* the two blocks it took from the stream, and the step that refused ("short",
\* "rsA", "rsB", "crc") or "" when none did
HeaderRead(ok, hdr, cursor, A, B, why) ==
  [ok |-> ok, hdr |-> hdr, cursor |-> cursor, A |-> A, B |-> B, why |-> why]

NoHeader == HeaderRead(FALSE, SuperframeHeader0, 0, << >>, << >>, "none")

hdr_check(A, B, hp) ==
  IF ~HeaderCodec_check(hp)
  THEN HeaderRead(FALSE, SuperframeHeader0, HDR_WORDS, A, B, "crc")
  ELSE HeaderRead(TRUE, HeaderCodec_unpack(hp), HDR_WORDS, A, B, "")

\* B is decoded only when A was accepted
hdr_decoded(A, B, da, db) ==
  IF ~da.ok THEN HeaderRead(FALSE, SuperframeHeader0, HDR_WORDS, A, B, "rsA")
  ELSE IF ~db.ok THEN HeaderRead(FALSE, SuperframeHeader0, HDR_WORDS, A, B, "rsB")
  ELSE hdr_check(A, B, SubSeq(da.out_k, 1, 18) \o SubSeq(db.out_k, 1, 9))

hdr_blocks(A, B) ==
  hdr_decoded(A, B, decode_block(HDR_DATA, A, [i \in 1..HDR_DATA |-> 0]),
              decode_block(HDR_DATA, B, [i \in 1..HDR_DATA |-> 0]))

\* A = sy[0..25], B = sy[26..51]
hdr_split(sy) == hdr_blocks(SubSeq(sy, 1, 26), SubSeq(sy, 27, 52))

\* read_and_decode_header_from_words with cursor = 0
read_and_decode_header_from_words(words) ==
  IF HDR_WORDS > Len(words)
  THEN HeaderRead(FALSE, SuperframeHeader0, 0, << >>, << >>, "short")
  ELSE hdr_split(Vec(word_symbols(SubSeq(words, 1, HDR_WORDS))))

\* descramble_words_inplace, on the symbols of the body words
descramble_words_inplace(sy, hdr) ==
  LET sts == lcg_run(hdr.seed, hdr.seed.s0 % 3, Len(sy))
      before(i) == IF i = 1 THEN hdr.seed.s0 % 3 ELSE sts[i - 1]
  IN Vec([i \in 1..Len(sy) |-> descramble_symbol(sy[i], hdr.seed, before(i)).s])

\* demap: band `slot` receives symbol `slot` of every body word, except the
\* beacon slot of a beacon word
demap_band(body, hdr, slot) ==
  LET skip == hdr.beacon.enabled /\ hdr.beacon.words_period > 0
      keep(wi) == ~(skip /\ (wi % hdr.beacon.words_period) = 0
                         /\ slot = hdr.beacon.band_slot)
      col == [w \in 1..Len(body) |-> w - 1]
      kept == SelectSeq(col, keep)
  IN [j \in 1..Len(kept) |-> body[kept[j] + 1][slot + 1]]

\* the blocks of n symbols the band loops hand to the codecs, in call order,
\* each with the k of its band
band_blocks(body, hdr) ==
  Flatten([b1 \in 1..NUM_BANDS |->
             LET band == demap_band(body, hdr, b1 - 1)
             IN [j \in 1..(Len(band) \div RS_N) |->
                   [k |-> rsc_for(hdr.uep, b1 - 1),
                    nbuf |-> SubSeq(band, (j - 1) * RS_N + 1, j * RS_N)]]],
          1, << >>)

\* demap_and_rsdecode_bands_from_words, the loops over the blocks: ok,
\* out_syms at the return, and the number of decode_block calls made
RECURSIVE rsdecode_from(_, _, _)
RECURSIVE rsdecode_step(_, _, _, _)
rsdecode_step(blocks, i, acc, d) ==
  IF ~d.ok THEN [ok |-> FALSE, out_syms |-> acc, calls |-> i]
  ELSE rsdecode_from(blocks, i + 1, acc \o d.out_k)

rsdecode_from(blocks, i, acc) ==
  IF i > Len(blocks) \/ Len(acc) < 0
  THEN [ok |-> TRUE, out_syms |-> acc, calls |-> Len(blocks)]
  ELSE rsdecode_step(blocks, i, acc,
                     decode_block(blocks[i].k, blocks[i].nbuf,
                                  [x \in 1..blocks[i].k |-> 0]))

demap_and_rsdecode_bands_from_words(body, hdr) ==
  rsdecode_from(band_blocks(body, hdr), 1, << >>)

\* the tail of decode_profile_to_raw: symbols to trits, 26 trits to a word
symbols_to_raw(use) ==
  LET tr(x) == unpack3(use[((x - 1) \div 3) + 1])[((x - 1) % 3) + 1]
      T(w, i) == IF i < RAW_TRITS THEN tr((w - 1) * RAW_TRITS + i + 1) ELSE 0
  IN Vec([w \in 1..((3 * Len(use)) \div RAW_TRITS) |->
            Vec([s1 \in 1..SYM_PER_WORD |->
                   pack3(T(w, 3 * s1 - 3), T(w, 3 * s1 - 2), T(w, 3 * s1 - 1))])])

DecStages == <<"Idle", "HeaderOk", "BodyDecoded", "Emitted">>

\* what decode_profile_to_raw leaves: the return value, out, the point the
\* function reached (an index in DecStages), and what it read on the way: the
\* header result H, the symbol index at which its body starts, the scrambler
\* states it applied to the body symbols, the symbols it handed to the
\* repacking, and the decode_block calls of the body
Decoded(ok, out, stage, raw_copy, H, body_at, sts, use, calls) ==
  [ok |-> ok, out |-> out, stage |-> stage, raw_copy |-> raw_copy, H |-> H,
   body_at |-> body_at, sts |-> sts, use |-> use, calls |-> calls]

dec_emit(H, sts, D, use) ==
  Decoded(TRUE, symbols_to_raw(use), 4, FALSE, H, SYM_PER_WORD * H.cursor, sts, use,
          D.calls)

\* a decoder that repacks whatever the band loops left, refused block or not
dec_merge_regardless(H, sts, D) == dec_emit(H, sts, D, D.out_syms)

dec_merge(H, sts, D) ==
  IF ~D.ok
  THEN Decoded(FALSE, << >>, 2, FALSE, H, SYM_PER_WORD * H.cursor, sts, << >>, D.calls)
  ELSE dec_emit(H, sts, D,
                IF H.hdr.profile = P5_RS26_22_2D /\ H.hdr.tile.w # 0 /\ H.hdr.tile.h # 0
                THEN deinterleave2D_boustrophedon(D.out_syms, H.hdr.tile)
                ELSE D.out_syms)

dec_body(H, bsy) ==
  dec_merge(H, lcg_run(H.hdr.seed, H.hdr.seed.s0 % 3, Len(bsy)),
            demap_and_rsdecode_bands_from_words(
              to_words(descramble_words_inplace(bsy, H.hdr)), H.hdr))

dec_header(in, H) ==
  IF ~H.ok THEN Decoded(FALSE, << >>, 1, FALSE, H, 0, << >>, << >>, 0)
  ELSE dec_body(H, Vec(word_symbols(SubSeq(in, H.cursor + 1, Len(in)))))

\* decode_profile_to_raw(in, out, dctx) with dctx.cfg_last_seen.profile = seen
decode_profile_to_raw(in, seen) ==
  IF seen = RAW_MODE
  THEN Decoded(TRUE, in, 4, TRUE, NoHeader, 0, << >>, << >>, 0)
  ELSE dec_header(in, read_and_decode_header_from_words(in))

\* ------------------------------------------------------------------ state
VARIABLES
  polId,            \* which Policy instance the behaviour runs on
  rotor_tick,       \* Policy::rotor.tick
  prepared_cache,   \* Policy::prepared_cache
  meta,             \* the meta the caller presents
  R,                \* DecisionEx returned by the last decide_ex
  ev,               \* what the last call did (callbacks asked, their answers)
  pc,               \* caller: "idle", "ready" (meta to present), "decided"
  chain,            \* redirects emitted since the request was first presented
  file,             \* the bytes of the container file on disk
  written,          \* what the writer of that file was given
  out_words,        \* the vector the caller passed to the last reader call
  io,               \* the last reader call: its arguments and what it did
  cpc,              \* file: "none", "stored", "damaged", "aborted", "read"
  rs,               \* one RS block: data, buffer, errors added, decode result
  hd,               \* one header pack: the header, its symbols, the trit changed
  pl,               \* one frame: raw words, encoder output, stream, decoder output
  fx                \* one packing: its input, the packed form, what came back

pvars == <<polId, rotor_tick, prepared_cache, meta, R, ev, pc, chain>>
cvars == <<file, written, out_words, io, cpc>>
kvars == <<rs, hd, pl, fx>>
vars  == <<pvars, cvars, kvars>>

pol == Policies[polId]

Ev0 ==
  [op |-> "init", step |-> "none", calls |-> NoCalls, ncands |-> 0, neighbor |-> EMPTY,
   prep_ok |-> FALSE, prep_target |-> EMPTY, accept_ok |-> FALSE,
   had_prep |-> EMPTY, expired_before |-> FALSE,
   tick_before |-> 0, ret |-> FALSE, user_null |-> FALSE, meta_null |-> FALSE]

\* target cached for a requester, EMPTY when none
CachedTarget(cache, d) ==
  IF find_prep(cache, d) = 0 THEN EMPTY ELSE cache[find_prep(cache, d)].prepared_target

\* the requester's preparation had already run out of window before the call
ExpiredFor(cache, d) ==
  /\ find_prep(cache, d) # 0
  /\ cache[find_prep(cache, d)].window = 0
  /\ cache[find_prep(cache, d)].prepared_target # EMPTY

EvOf(op, o, cb, before) ==
  [Ev0 EXCEPT
     !.op = op, !.step = o.step, !.calls = o.calls, !.ncands = o.ncands,
     !.neighbor = o.neighbor,
     !.prep_ok = o.calls.prepare /\ cb.prep_ok,
     !.prep_target = IF o.calls.prepare THEN cb.prep_target ELSE EMPTY,
     !.accept_ok = o.calls.accept /\ cb.accept_ok,
     !.had_prep = before]

\* ret is what the writer returned, sub the subword mode it was given
Written0 ==
  [kind |-> "none", words |-> << >>, frames |-> << >>, meta |-> << >>, metas |-> << >>,
   sub |-> S27, ret |-> FALSE]

\* out_sub is the subword mode a header read handed back
IO0 ==
  [op |-> "none", approve |-> "none", frame_idx |-> 0, intact |-> FALSE,
   ret |-> FALSE, out_words |-> << >>,
   approve_called |-> FALSE, approve_meta |-> << >>, payload_read |-> 0, why |-> "none",
   out_sub |-> S27]

\* no block in hand
RS0 ==
  [phase |-> "idle", k |-> 0, data |-> << >>, sent |-> << >>, buf |-> << >>,
   errs |-> {}, entry |-> << >>, ok |-> FALSE, out_k |-> << >>, why |-> "none",
   err_pos |-> << >>]

\* no header in hand
HD0 ==
  [phase |-> "idle", h |-> SuperframeHeader0, p |-> << >>,
   flip |-> [sym |-> -1, trit |-> 0, by |-> 0], ok |-> FALSE,
   u |-> SuperframeHeader0]

\* no frame in hand; the decoder context is as DecoderContext() leaves it
PL0 ==
  [phase |-> "idle", cfg |-> EncoderConfig0, raw |-> << >>,
   enc |-> [words |-> << >>, sy |-> << >>, rs_body |-> << >>, scr |-> << >>,
            body |-> << >>, src |-> << >>, encA |-> << >>, encB |-> << >>,
            body_at |-> 0],
   stream |-> << >>, hit |-> "none", seen |-> P2_RS26_22,
   dec |-> Decoded(FALSE, << >>, 1, FALSE, NoHeader, 0, << >>, << >>, 0)]

\* nothing packed yet
FX0 ==
  [op |-> "none", phase |-> "idle", tile |-> [w |-> 0, h |-> 0], src |-> << >>,
   mid |-> << >>, tail |-> 0, out |-> << >>, ok |-> FALSE]

CodecInit ==
  /\ rs = RS0
  /\ hd = HD0
  /\ pl = PL0
  /\ fx = FX0

\* no container file yet
ContainerInit ==
  /\ file = << >>
  /\ written = Written0
  /\ out_words = << >>
  /\ io = IO0
  /\ cpc = "none"

PolicyInit ==
  /\ polId \in 1..Len(Policies)
  /\ rotor_tick = 0
  /\ prepared_cache = << >>
  /\ meta = Meta0
  /\ R = DecisionEx0
  /\ ev = Ev0
  /\ pc = "idle"
  /\ chain = 0

\* the caller takes up a new request
Present ==
  /\ pc = "idle"
  /\ \E m \in Metas : meta' = m
  /\ pc' = "ready"
  /\ chain' = 0
  /\ R' = DecisionEx0
  /\ ev' = [Ev0 EXCEPT !.op = "present"]
  /\ UNCHANGED <<polId, rotor_tick, prepared_cache>>
  /\ UNCHANGED <<cvars, kvars>>

AdapterRet(op, userNull, metaNull, decision) ==
  IF op = "t3p_approve" THEN t3p_approve_with_policy(userNull, metaNull, decision)
  ELSE IF op = "t3v_approve" THEN t3v_approve_with_policy(userNull, metaNull, decision)
  ELSE FALSE

DecideWith(op, cb) ==
  \E o \in {IF op = "decide_ex"
            THEN decide_ex(pol, prepared_cache, rotor_tick, meta, cb)
            ELSE decide(pol, prepared_cache, rotor_tick, meta, cb)} :
     /\ rotor_tick' = o.tick
     /\ prepared_cache' = o.cache
     /\ R' = o.R
     /\ ev' = [EvOf(op, o, cb, CachedTarget(prepared_cache, o.R.tag.domain))
                 EXCEPT !.ret = AdapterRet(op, FALSE, FALSE, o.R.decision),
                        !.expired_before = ExpiredFor(prepared_cache, o.R.tag.domain),
                        !.tick_before = rotor_tick]
     /\ chain' = IF o.R.next.should_redirect THEN chain + 1 ELSE chain

\* decide_ex(pol, meta)
DecideEx ==
  /\ pc = "ready"
  /\ rotor_tick < MaxTick
  /\ chain < MaxChain
  /\ \E cb \in Callbacks(pol) : DecideWith("decide_ex", cb)
  /\ pc' = "decided"
  /\ UNCHANGED <<polId, meta>>
  /\ UNCHANGED <<cvars, kvars>>

\* the adapter called with a NULL user or a NULL meta: no decision is taken
ApproveNull(op, userNull, metaNull) ==
  /\ pc = "ready"
  /\ userNull \/ metaNull
  /\ ev' = [Ev0 EXCEPT !.op = op, !.user_null = userNull, !.meta_null = metaNull,
                       !.ret = AdapterRet(op, userNull, metaNull, R.decision)]
  /\ pc' = "decided"
  /\ UNCHANGED <<polId, rotor_tick, prepared_cache, meta, R, chain>>
  /\ UNCHANGED <<cvars, kvars>>

\* the adapter called with a policy and a meta: decide(), then the verdict
ApproveDecide(op) ==
  /\ pc = "ready"
  /\ rotor_tick < MaxTick
  /\ \E cb \in Callbacks(pol) : DecideWith(op, cb)
  /\ pc' = "decided"
  /\ UNCHANGED <<polId, meta>>
  /\ UNCHANGED <<cvars, kvars>>

\* t3p_approve_with_policy(meta_json, user)
T3pApprove ==
  \/ \E un \in BOOLEAN, mn \in BOOLEAN : ApproveNull("t3p_approve", un, mn)
  \/ ApproveDecide("t3p_approve")

\* t3v_approve_with_policy(idx, meta_frame_json, user)
T3vApprove ==
  \/ \E un \in BOOLEAN, mn \in BOOLEAN : ApproveNull("t3v_approve", un, mn)
  \/ ApproveDecide("t3v_approve")

\* after a redirect: the caller forwards the meta with the ttl the decision gave
AdvanceRedirect ==
  /\ pc = "decided"
  /\ R.next.should_redirect
  /\ \E phase \in 0..(PHASE_MAX + 1) :
       LET out == prepare_redirect_meta_phase(meta, R.next.ttl_after, 1, phase)
       IN /\ meta' = out.meta
          /\ pc' = IF out.ok THEN "ready" ELSE "idle"
  /\ ev' = [Ev0 EXCEPT !.op = "advance"]
  /\ UNCHANGED <<polId, rotor_tick, prepared_cache, R, chain>>
  /\ UNCHANGED <<cvars, kvars>>

\* after Round 1: the caller re-presents with phase 1, ttl - 1, hops + 1
AdvancePrep ==
  /\ pc = "decided"
  /\ ev.step = "round1"
  /\ LET out == prepare_redirect_meta_prep(meta, R.tag.route_ttl - 1)
     IN /\ meta' = out.meta
        /\ pc' = IF out.ok THEN "ready" ELSE "idle"
  /\ ev' = [Ev0 EXCEPT !.op = "advance"]
  /\ UNCHANGED <<polId, rotor_tick, prepared_cache, R, chain>>
  /\ UNCHANGED <<cvars, kvars>>

\* the caller is done with the request
Finish ==
  /\ pc = "decided"
  /\ pc' = "idle"
  /\ meta' = Meta0
  /\ R' = DecisionEx0
  /\ ev' = Ev0
  /\ chain' = 0
  /\ UNCHANGED <<polId, rotor_tick, prepared_cache>>
  /\ UNCHANGED <<cvars, kvars>>

\* the caller drives decide_ex and the route helper
PolicyNext ==
  \/ Present
  \/ DecideEx
  \/ AdvanceRedirect
  \/ AdvancePrep
  \/ Finish

Init == PolicyInit /\ ContainerInit /\ CodecInit

Spec == Init /\ [][PolicyNext]_vars

\* a container reader drives the approve adapters
ApproveNext ==
  \/ Present
  \/ T3pApprove
  \/ T3vApprove
  \/ Finish

SpecApprove == Init /\ [][ApproveNext]_vars

\* ------------------------------------------------- container state machine
Word27Values == {<<0, 0>>, <<2047, 65535>>}
FrameWords   == {<< >>, << <<2047, 65535>> >>}
ContainerMetas == {<< >>, <<123, 125>>}
FrameMeta    == <<97>>
Pads         == {0, 204}
Approves     == {"none", "yes", "no"}

\* states of the file a reader may be pointed at
Readable == {"stored", "damaged", "aborted"}

\* word vectors and frame lists are varied under S27; the other subword modes
\* are written with none, their headers being what differs
MostWords(sub)  == IF sub = S27 THEN MaxWords ELSE 0
MostFrames(sub) == IF sub = S27 THEN MaxFrames ELSE 0

PolicyIdle ==
  /\ polId = 1
  /\ rotor_tick = 0
  /\ prepared_cache = << >>
  /\ meta = Meta0
  /\ R = DecisionEx0
  /\ ev = Ev0
  /\ pc = "idle"
  /\ chain = 0

\* t3p_write(path, sub, w, h, words, meta_json)
T3pWrite ==
  /\ cpc = "none"
  /\ \E sub \in SubwordModes :
     \E n \in 0..MostWords(sub) : \E words \in [1..n -> Word27Values] :
     \E meta_json \in ContainerMetas, pad \in Pads :
       /\ file' = t3p_write(sub, 2, 1, words, meta_json, pad)
       /\ written' = [Written0 EXCEPT !.kind = "t3p", !.words = words, !.meta = meta_json,
                                      !.sub = sub, !.ret = TRUE]
  /\ cpc' = "stored"
  /\ UNCHANGED <<out_words, io>>
  /\ UNCHANGED <<pvars, kvars>>

\* t3v_write(path, sub, w, h, frames, meta_json_global, metas_per_frame)
T3vWrite ==
  /\ cpc = "none"
  /\ \E sub \in SubwordModes :
     \E n \in 0..MostFrames(sub) : \E frames \in [1..n -> FrameWords] :
     \E metas \in {<< >>, [i \in 1..n |-> FrameMeta]}, pad \in Pads :
       /\ file' = t3v_write(sub, 2, 1, frames, <<123, 125>>, metas, pad)
       /\ written' = [Written0 EXCEPT !.kind = "t3v", !.frames = frames,
                                      !.meta = <<123, 125>>, !.metas = metas,
                                      !.sub = sub, !.ret = TRUE]
  /\ cpc' = "stored"
  /\ UNCHANGED <<out_words, io>>
  /\ UNCHANGED <<pvars, kvars>>

\* t3p_write returning false: a write step failed and the file keeps what had
\* reached it, a proper prefix of the record
T3pWriteAbort ==
  /\ cpc = "none"
  /\ \E n \in 0..MaxWords : \E words \in [1..n -> Word27Values] :
     \E meta_json \in ContainerMetas, pad \in Pads :
       \E full \in {t3p_write(S27, 2, 1, words, meta_json, pad)} :
         \E kept \in 0..(Len(full) - 1) :
           /\ file' = SubSeq(full, 1, kept)
           /\ written' = [Written0 EXCEPT !.kind = "t3p", !.words = words,
                                          !.meta = meta_json]
  /\ cpc' = "aborted"
  /\ UNCHANGED <<out_words, io>>
  /\ UNCHANGED <<pvars, kvars>>

\* t3v_write returning false: it failed while emitting (the index still holds
\* placeholders and the file ends where the failure struck) or while rewriting
\* the index (the first j entries carry their offsets)
T3vWriteAbort ==
  /\ cpc = "none"
  /\ \E n \in 0..MaxFrames : \E frames \in [1..n -> FrameWords] :
     \E metas \in {<< >>, [i \in 1..n |-> FrameMeta]}, pad \in Pads :
       \E full \in {t3v_write(S27, 2, 1, frames, <<123, 125>>, metas, pad)} :
         \E j \in (IF n > 0 THEN 0..(n - 1) ELSE {0}) :
           \E e \in {t3v_rewritten(full, frames, metas, Len(<<123, 125>>), j)} :
             \E kept \in (IF j > 0 THEN {Len(e)}
                           ELSE IF n > 0 THEN 0..Len(e) ELSE 0..(Len(e) - 1)) :
               /\ file' = SubSeq(e, 1, kept)
               /\ written' = [Written0 EXCEPT !.kind = "t3v", !.frames = frames,
                                              !.meta = <<123, 125>>, !.metas = metas]
  /\ cpc' = "aborted"
  /\ UNCHANGED <<out_words, io>>
  /\ UNCHANGED <<pvars, kvars>>

\* the stored stream is replaced by the one a writer of the next container
\* version produces for the same record
OtherVersion ==
  /\ cpc = "stored"
  /\ \E pad \in Pads : file' = other_version(file, written.kind, CONTAINER_VER + 1, pad)
  /\ cpc' = "damaged"
  /\ UNCHANGED <<written, out_words, io>>
  /\ UNCHANGED <<pvars, kvars>>

\* the file loses its tail
Truncate ==
  /\ cpc = "stored"
  /\ \E n \in 0..(Len(file) - 1) : file' = SubSeq(file, 1, n)
  /\ cpc' = "damaged"
  /\ UNCHANGED <<written, out_words, io>>
  /\ UNCHANGED <<pvars, kvars>>

\* upper bytes of a frame's offset and word count in the .t3v index: a bump
\* there asks for a seek or a vector beyond what the model holds
IndexUpper(i) ==
  /\ written.kind = "t3v"
  /\ \E k \in 0..(Len(written.frames) - 1) :
       (i - (T3V_HEADER_BYTES + Len(written.meta) + (T3V_INDEX_BYTES * k)))
         \in (2..8) \cup (10..16)

\* one byte of the file changes
BumpByte ==
  /\ cpc = "stored"
  /\ \E i \in 1..Len(file) :
       /\ ~IndexUpper(i)
       /\ file' = [file EXCEPT ![i] = (@ + 1) % 256]
  /\ cpc' = "damaged"
  /\ UNCHANGED <<written, out_words, io>>
  /\ UNCHANGED <<pvars, kvars>>

Reading(op, approve, idx, o) ==
  /\ out_words' = o.out_words
  /\ io' = [op |-> op, approve |-> approve, frame_idx |-> idx, intact |-> cpc = "stored",
            ret |-> o.ret,
            out_words |-> o.out_words, approve_called |-> o.approve_called,
            approve_meta |-> o.approve_meta, payload_read |-> o.payload_read,
            why |-> o.why, out_sub |-> S27]
  /\ cpc' = "read"
  /\ UNCHANGED <<file, written>>
  /\ UNCHANGED <<pvars, kvars>>

\* a header read: no vector is passed, io keeps the result and out_sub
ReadingHeader(op, h) ==
  /\ io' = [IO0 EXCEPT !.op = op, !.intact = cpc = "stored", !.ret = h.ok,
                       !.why = h.why, !.out_sub = h.sub]
  /\ cpc' = "read"
  /\ UNCHANGED <<file, written, out_words>>
  /\ UNCHANGED <<pvars, kvars>>

\* t3p_read_header(path, out_sub, out_w, out_h, out_meta_json, out_words_count)
T3pReadHeader ==
  /\ cpc \in Readable
  /\ written.kind = "t3p"
  /\ \E pad \in Pads : \E h \in {t3p_read_header(file, pad)} :
       ReadingHeader("t3p_read_header", h)

\* t3v_read_header(path, out_sub, out_w, out_h, out_meta, out_frame_count, out_index)
T3vReadHeader ==
  /\ cpc \in Readable
  /\ written.kind = "t3v"
  /\ \E pad \in Pads : \E h \in {t3v_read_header(file, pad)} :
       ReadingHeader("t3v_read_header", h)

\* t3p_read_payload(path, approve_meta, out_words)
T3pReadPayload ==
  /\ cpc \in Readable
  /\ written.kind = "t3p"
  /\ \E approve \in Approves, pad \in Pads :
       \E o \in {t3p_read_payload(file, approve, pad)} :
          Reading("t3p_read_payload", approve, 0, o)

\* t3v_read_frame(path, frame_idx, approve_meta, out_words)
T3vReadFrame ==
  /\ cpc \in Readable
  /\ written.kind = "t3v"
  /\ \E approve \in Approves, pad \in Pads, idx \in 0..MaxFrames :
       \E o \in {t3v_read_frame(file, idx, approve, pad)} :
          Reading("t3v_read_frame", approve, idx, o)

\* the caller is done with the file
Discard ==
  /\ cpc = "read"
  /\ file' = << >>
  /\ written' = Written0
  /\ out_words' = << >>
  /\ io' = IO0
  /\ cpc' = "none"
  /\ UNCHANGED <<pvars, kvars>>

IONext ==
  \/ T3pWrite
  \/ T3vWrite
  \/ T3pWriteAbort
  \/ T3vWriteAbort
  \/ OtherVersion
  \/ Truncate
  \/ BumpByte
  \/ T3pReadHeader
  \/ T3vReadHeader
  \/ T3pReadPayload
  \/ T3vReadFrame
  \/ Discard

IOInit == PolicyIdle /\ ContainerInit /\ CodecInit

SpecIO == IOInit /\ [][IONext]_vars



\* ------------------------------------------------------- RS block machine
\* A caller encodes a block, the channel adds errors to it, the caller decodes.
ZeroData(k) == [i \in 1..k |-> 0]

\* the data vector of selftest_rs_unit
SelftestData(k) == [i \in 1..k |-> ((i - 1) * 5 + 7) % 27]

RSData(k) == {ZeroData(k), SelftestData(k)}

\* where the channel may hit, and with what: alpha^5 and alpha^11
ErrPositions == {0, 3, 6, 17, 24}
ErrValues == {pow_alpha(5), pow_alpha(11)}

rs_t(k) == (RS_N - k) \div 2

RSEncodeBlock ==
  /\ rs.phase = "idle"
  /\ \E k \in RS_KS : \E data \in RSData(k) :
       \E code \in {encode_block(k, data)} :
         rs' = [RS0 EXCEPT !.phase = "coded", !.k = k, !.data = data,
                           !.sent = code, !.buf = code]
  /\ UNCHANGED <<pvars, cvars, hd, pl, fx>>

RSAddError ==
  /\ rs.phase = "coded"
  /\ Cardinality(rs.errs) < rs_t(rs.k) + MaxExtraErrors
  /\ \E pos \in ErrPositions \ rs.errs, v \in ErrValues :
       rs' = [rs EXCEPT !.buf[pos + 1] = gf_add(rs.buf[pos + 1], v),
                        !.errs = rs.errs \cup {pos}]
  /\ UNCHANGED <<pvars, cvars, hd, pl, fx>>

RSDecodeBlock ==
  /\ rs.phase = "coded"
  /\ \E d \in {decode_block(rs.k, rs.buf, ZeroData(rs.k))} :
       rs' = [rs EXCEPT !.phase = "decoded", !.entry = rs.buf, !.buf = d.buf,
                        !.ok = d.ok, !.out_k = d.out_k, !.why = d.why,
                        !.err_pos = d.err_pos]
  /\ UNCHANGED <<pvars, cvars, hd, pl, fx>>

RSDone ==
  /\ rs.phase = "decoded"
  /\ rs' = RS0
  /\ UNCHANGED <<pvars, cvars, hd, pl, fx>>

RSNext ==
  \/ RSEncodeBlock
  \/ RSAddError
  \/ RSDecodeBlock
  \/ RSDone

RSInit == PolicyIdle /\ ContainerInit /\ CodecInit

SpecRS == RSInit /\ [][RSNext]_vars

\* --------------------------------------------------------- header machine
\* A header is packed, at most one trit of the pack is changed, it is checked,
\* and a pack that passed the check is unpacked.
uep_luma_priority == <<2, 1, 1, 2, 1, 1, 2, 1, 1>>

\* profile P5, tile (8,8), subword S24, beacon period 83 slot 2, seed (1,1,1),
\* frame_seq 42
HeaderP5 ==
  [SuperframeHeader0 EXCEPT
     !.profile = P5_RS26_22_2D, !.tile = [w |-> 8, h |-> 8], !.subword = 24,
     !.beacon = [words_period |-> 83, band_slot |-> 2, enabled |-> TRUE],
     !.frame_seq = 42]

Headers ==
  {HeaderP5,
   [SuperframeHeader0 EXCEPT !.uep = uep_luma_priority],
   [SuperframeHeader0 EXCEPT !.profile = RAW_MODE, !.band_map_hash = 123456,
                             !.frame_seq = 19682, !.centered = FALSE, !.coset = 2,
                             !.subword = 15, !.seed = [a |-> 2, b |-> 0, s0 |-> 5]],
   [SuperframeHeader0 EXCEPT !.uep = uep_uniform(3)],
   [HeaderP5 EXCEPT !.uep = uep_uniform(1), !.beacon.words_period = 13]}

\* symbol s with its trit j (0 = least significant) raised by `by` mod 3
change_trit(s, j, by) ==
  LET d == unpack3(s)
      e == [d EXCEPT ![j + 1] = (d[j + 1] + by) % 3]
  IN pack3(e[1], e[2], e[3])

HdrPack ==
  /\ hd.phase = "idle"
  /\ \E h \in Headers :
       hd' = [HD0 EXCEPT !.phase = "packed", !.h = h, !.p = HeaderCodec_pack(h)]
  /\ UNCHANGED <<pvars, cvars, rs, pl, fx>>

HdrChangeTrit ==
  /\ hd.phase = "packed"
  /\ hd.flip.sym = -1
  /\ \E i \in 0..26, j \in 0..2, by \in 1..2 :
       hd' = [hd EXCEPT !.p[i + 1] = change_trit(hd.p[i + 1], j, by),
                        !.flip = [sym |-> i, trit |-> j, by |-> by]]
  /\ UNCHANGED <<pvars, cvars, rs, pl, fx>>

HdrCheck ==
  /\ hd.phase = "packed"
  /\ hd' = [hd EXCEPT !.phase = "checked", !.ok = HeaderCodec_check(hd.p)]
  /\ UNCHANGED <<pvars, cvars, rs, pl, fx>>

\* HeaderCodec::unpack, called once HeaderCodec::check has passed
HdrUnpack ==
  /\ hd.phase = "checked" /\ hd.ok
  /\ hd' = [hd EXCEPT !.phase = "unpacked", !.u = HeaderCodec_unpack(hd.p)]
  /\ UNCHANGED <<pvars, cvars, rs, pl, fx>>

HdrDone ==
  /\ hd.phase \in {"checked", "unpacked"}
  /\ hd' = HD0
  /\ UNCHANGED <<pvars, cvars, rs, pl, fx>>

HdrNext ==
  \/ HdrPack
  \/ HdrChangeTrit
  \/ HdrCheck
  \/ HdrUnpack
  \/ HdrDone

HdrInit == PolicyIdle /\ ContainerInit /\ CodecInit

SpecHdr == HdrInit /\ [][HdrNext]_vars

\* ---------------------------------------------------------- frame machine
\* A caller encodes RAW words under a configuration, the channel may change one
\* symbol of the stream or cut the stream short, a decoder decodes the stream.
RawZero(n) == [i \in 1..n |-> [s1 \in 1..SYM_PER_WORD |-> 0]]

\* RAW words whose 27th trit is zero (the ninth symbol stays below 9)
RawPattern(n) ==
  [i \in 1..n |-> [s1 \in 1..SYM_PER_WORD |->
     IF s1 = SYM_PER_WORD THEN (i + 7) % 9 ELSE ((i - 1) * 7 + (s1 - 1) * 3 + 1) % 27]]

RawInputs == {RawZero(19), RawPattern(1), RawPattern(19), RawPattern(25)}

BeaconEvery2 == [words_period |-> 2, band_slot |-> 1, enabled |-> TRUE]

\* the configuration of selftest_api_roundtrip, the default one, and one per
\* other profile
Configs ==
  {[EncoderConfig0 EXCEPT !.uep = uep_luma_priority],
   EncoderConfig0,
   [EncoderConfig0 EXCEPT !.profile = P1_RS26_24, !.uep = uep_uniform(0)],
   [EncoderConfig0 EXCEPT !.uep = uep_uniform(0), !.beacon = BeaconEvery2],
   [EncoderConfig0 EXCEPT !.profile = P3_RS26_20, !.uep = uep_uniform(2)],
   [EncoderConfig0 EXCEPT !.profile = P4_RS26_18, !.uep = uep_uniform(3)],
   [EncoderConfig0 EXCEPT !.profile = P5_RS26_22_2D, !.tile = [w |-> 2, h |-> 3]],
   [EncoderConfig0 EXCEPT !.profile = RAW_MODE]}

\* the symbols of the stream the channel may change (index from 0) and what
\* it adds to them mod 27: one in each header block, two in the body
Hits == {<<0, 1>>, <<30, 1>>, <<60, 4>>, <<61, 4>>}

PlEncode ==
  /\ pl.phase = "idle"
  /\ \E cfg \in Configs, raw \in RawInputs :
       \E e \in {encode_profile_from_raw(raw, cfg)} :
         pl' = [PL0 EXCEPT !.phase = "encoded", !.cfg = cfg, !.raw = raw,
                           !.enc = e, !.stream = e.words]
  /\ UNCHANGED <<pvars, cvars, rs, hd, fx>>

PlChangeSymbol ==
  /\ pl.phase = "encoded"
  /\ pl.hit = "none"
  /\ \E x \in Hits :
       /\ x[1] < SYM_PER_WORD * Len(pl.stream)
       /\ pl' = [pl EXCEPT
            !.stream[(x[1] \div SYM_PER_WORD) + 1][(x[1] % SYM_PER_WORD) + 1] =
               (@ + x[2]) % 27,
            !.hit = "symbol"]
  /\ UNCHANGED <<pvars, cvars, rs, hd, fx>>

PlCutShort ==
  /\ pl.phase = "encoded"
  /\ pl.hit = "none"
  /\ Len(pl.stream) >= HDR_WORDS
  /\ pl' = [pl EXCEPT !.stream = SubSeq(pl.stream, 1, HDR_WORDS - 1), !.hit = "cut"]
  /\ UNCHANGED <<pvars, cvars, rs, hd, fx>>

PlDecode ==
  /\ pl.phase = "encoded"
  /\ \E seen \in {P2_RS26_22, RAW_MODE} :
       \E d \in {decode_profile_to_raw(pl.stream, seen)} :
         pl' = [pl EXCEPT !.phase = "decoded", !.seen = seen, !.dec = d]
  /\ UNCHANGED <<pvars, cvars, rs, hd, fx>>

PlDone ==
  /\ pl.phase = "decoded"
  /\ pl' = PL0
  /\ UNCHANGED <<pvars, cvars, rs, hd, fx>>

PlNext ==
  \/ PlEncode
  \/ PlChangeSymbol
  \/ PlCutShort
  \/ PlDecode
  \/ PlDone

PlInit == PolicyIdle /\ ContainerInit /\ CodecInit

SpecPl == PlInit /\ [][PlNext]_vars

\* -------------------------------------------------------- packing machine
MaxSyms == 13      \* longest symbol vector interleaved
MaxTile == 3       \* largest tile width and height

\* n symbols, all different up to 27
Ramp(n) == Vec([i \in 1..n |-> (i - 1) % 27])

Tiles == [w : 1..MaxTile, h : 1..MaxTile]

\* interleave2D_boustrophedon(syms, tile)
IlInterleave ==
  /\ fx.phase = "idle"
  /\ \E n \in 0..MaxSyms, tile \in Tiles :
       fx' = [FX0 EXCEPT !.op = "il", !.phase = "packed", !.tile = tile,
                         !.src = Ramp(n),
                         !.mid = interleave2D_boustrophedon(Ramp(n), tile)]
  /\ UNCHANGED <<pvars, cvars, rs, hd, pl>>

\* deinterleave2D_boustrophedon(syms, tile)
IlDeinterleave ==
  /\ fx.op = "il" /\ fx.phase = "packed"
  /\ fx' = [fx EXCEPT !.phase = "back",
                      !.out = deinterleave2D_boustrophedon(fx.mid, fx.tile)]
  /\ UNCHANGED <<pvars, cvars, rs, hd, pl>>

MaxTrits == 6      \* longest trit vector packed

RECURSIVE block_value(_, _, _)
\* val += trits[i + j] * p; p *= 3, for j < k
block_value(trits, i, k) ==
  IF k = 0 THEN 0
  ELSE block_value(trits, i, k - 1) + trits[i + k] * 3 ^ (k - 1)

\* pack_unbalanced_base243: one byte per block of five trits, the last block
\* of one to four trits included; the length is not stored
pack_unbalanced_base243(trits_unb) ==
  LET n == Len(trits_unb)
  IN Vec([b \in 1..((n + 4) \div 5) |->
            block_value(trits_unb, 5 * (b - 1), Min(5, n - 5 * (b - 1))) % 256])

\* an unpacker that takes five trits from every byte it needs
unpack_whole_blocks(bytes, n_trits) ==
  Vec([x \in 1..(5 * ((n_trits + 4) \div 5)) |->
         LET b == (x - 1) \div 5
             val == IF b < Len(bytes) THEN bytes[b + 1] ELSE 0
         IN (val \div 3 ^ ((x - 1) % 5)) % 3])

\* unpack_unbalanced_base243: n_trits trits from (n_trits + 4) / 5 bytes, a
\* missing byte read as 0
unpack_unbalanced_base243(bytes, n_trits) ==
  Vec([x \in 1..n_trits |->
         LET b == (x - 1) \div 5
             val == IF b < Len(bytes) THEN bytes[b + 1] ELSE 0
         IN (val \div 3 ^ ((x - 1) % 5)) % 3])

\* pack_trits_base243: whole blocks of five, then the left-over trits in one
\* more byte; tail_trits is their number
pack_trits_base243(trits) ==
  LET N == Len(trits)
      whole == N \div 5
      left == N - 5 * whole
      red == [i \in 1..N |-> trits[i] % 3]
  IN [out |-> Vec([b \in 1..(whole + (IF left > 0 THEN 1 ELSE 0)) |->
                     block_value(red, 5 * (b - 1), IF b <= whole THEN 5 ELSE left)
                       % 256]),
      tail_trits |-> left % 256]

\* unpack_trits_base243(data, len, tail_trits, out)
unpack_trits_base243(data, tail_trits) ==
  IF tail_trits > 4 THEN [ok |-> FALSE, out |-> << >>]
  ELSE LET len == Len(data)
           full == IF len = 0 THEN 0 ELSE len - (IF tail_trits > 0 THEN 1 ELSE 0)
       IN [ok |-> TRUE,
           out |-> Vec([x \in 1..(5 * full + tail_trits) |->
                          LET b == IF x <= 5 * full THEN (x - 1) \div 5 ELSE len - 1
                              j == IF x <= 5 * full THEN (x - 1) % 5 ELSE x - 5 * full - 1
                          IN (data[b + 1] \div 3 ^ j) % 3])]

RECURSIVE TritVectors(_)
\* every vector of n trits 0, 1, 2
TritVectors(n) ==
  IF n = 0 THEN {<< >>}
  ELSE {Append(v, t) : v \in TritVectors(n - 1), t \in 0..2}

TritInputs == UNION {TritVectors(n) : n \in 0..MaxTrits}

\* pack_unbalanced_base243(unb, bytes)
PackUnbalanced ==
  /\ fx.phase = "idle"
  /\ \E v \in TritInputs :
       fx' = [FX0 EXCEPT !.op = "unbalanced", !.phase = "packed", !.src = v,
                         !.mid = pack_unbalanced_base243(v)]
  /\ UNCHANGED <<pvars, cvars, rs, hd, pl>>

\* unpack_unbalanced_base243(bytes, N, unb2), N the length of the vector packed
UnpackUnbalanced ==
  /\ fx.op = "unbalanced" /\ fx.phase = "packed"
  /\ fx' = [fx EXCEPT !.phase = "back", !.ok = TRUE,
                      !.out = unpack_unbalanced_base243(fx.mid, Len(fx.src))]
  /\ UNCHANGED <<pvars, cvars, rs, hd, pl>>

\* pack_trits_base243(in, out, tail_trits)
PackTrits ==
  /\ fx.phase = "idle"
  /\ \E v \in TritInputs :
       LET p == pack_trits_base243(v)
       IN fx' = [FX0 EXCEPT !.op = "trits", !.phase = "packed", !.src = v,
                            !.mid = p.out, !.tail = p.tail_trits]
  /\ UNCHANGED <<pvars, cvars, rs, hd, pl>>

\* unpack_trits_base243(data, len, tail_trits, out)
UnpackTrits ==
  /\ fx.op = "trits" /\ fx.phase = "packed"
  /\ LET u == unpack_trits_base243(fx.mid, fx.tail)
     IN fx' = [fx EXCEPT !.phase = "back", !.ok = u.ok, !.out = u.out]
  /\ UNCHANGED <<pvars, cvars, rs, hd, pl>>

MaxPixels == 3     \* longest pixel sequence packed

\* PixelYCbCrQuant{}
Pixel0 == [Yq |-> 0, Cbq |-> 0, Crq |-> 0]

\* quantized pixels within Y 0..242, Cb and Cr -40..40, the corners included
Pixels ==
  {Pixel0, [Yq |-> 242, Cbq |-> -40, Crq |-> 40],
   [Yq |-> 100, Cbq |-> 40, Crq |-> -40], [Yq |-> 1, Cbq |-> 0, Crq |-> 13]}

RECURSIVE PixelVectors(_)
PixelVectors(n) ==
  IF n = 0 THEN {<< >>}
  ELSE {Append(v, q) : v \in PixelVectors(n - 1), q \in Pixels}

PixelInputs == UNION {PixelVectors(n) : n \in 0..MaxPixels}

\* i2tr(v, w, d, s): the w low base-3 digits of v, to be stored from d[s]
i2tr(v, w) == [i \in 1..w |-> (v \div 3 ^ (i - 1)) % 3]

\* tr2i(d, w, s): the w trits from d[s], least significant first
tr2i(d, w, s) == block_value(d, s, w)

\* pack_two_pixels: 13 trits for a, 13 for b, trit 26 zero, three trits to a
\* symbol
pack_two_pixels(a, b) ==
  LET T == i2tr(a.Yq, 5) \o i2tr(a.Cbq + 40, 4) \o i2tr(a.Crq + 40, 4)
             \o i2tr(b.Yq, 5) \o i2tr(b.Cbq + 40, 4) \o i2tr(b.Crq + 40, 4)
             \o <<0>>
  IN Vec([k \in 1..SYM_PER_WORD |-> pack3(T[3 * k - 2], T[3 * k - 1], T[3 * k])])

\* unpack_two_pixels
unpack_two_pixels(w) ==
  LET T == [x \in 1..(3 * SYM_PER_WORD) |->
              unpack3(w[((x - 1) \div 3) + 1])[((x - 1) % 3) + 1]]
  IN <<[Yq |-> tr2i(T, 5, 0), Cbq |-> tr2i(T, 4, 5) - 40, Crq |-> tr2i(T, 4, 9) - 40],
       [Yq |-> tr2i(T, 5, 13), Cbq |-> tr2i(T, 4, 18) - 40,
        Crq |-> tr2i(T, 4, 22) - 40]>>

\* encode_raw_pixels_to_words of the codec header: one word for every two
\* pixels, a last single pixel paired with PixelYCbCrQuant{}
encode_raw_pixels_to_words(px) ==
  Vec([k \in 1..((Len(px) + 1) \div 2) |->
         pack_two_pixels(px[2 * k - 1],
                         IF 2 * k <= Len(px) THEN px[2 * k] ELSE Pixel0)])

\* decode_raw_words_to_pixels of the codec header: two pixels out of every word
decode_raw_words_to_pixels(ws) ==
  Vec([x \in 1..(2 * Len(ws)) |-> unpack_two_pixels(ws[(x + 1) \div 2])[2 - (x % 2)]])

clamp(v, lo, hi) == IF v < lo THEN lo ELSE IF v > hi THEN hi ELSE v

POW3_4 == 81
POW3_5 == 243

\* pack13_from_quant: Y + 243 * (Cb + 40 + 81 * (Cr + 40)), each clamped first
pack13_from_quant(q) ==
  clamp(q.Yq, 0, 242)
    + POW3_5 * (clamp(q.Cbq + 40, 0, 80) + POW3_4 * clamp(q.Crq + 40, 0, 80))

\* unpack13_to_quant
unpack13_to_quant(code) ==
  LET block == code \div POW3_5
  IN [Yq |-> Min(code % POW3_5, 242),
      Cbq |-> clamp((block % POW3_4) - 40, -40, 40),
      Crq |-> clamp((block \div POW3_4) - 40, -40, 40)]

\* encode_raw_pixels_to_words of main_bare.cpp: one pixel to a word
encode_raw_pixels_to_words_13(px) == Vec([k \in 1..Len(px) |-> pack13_from_quant(px[k])])

\* decode_raw_words_to_pixels of main_bare.cpp
decode_raw_words_to_pixels_13(ws) == Vec([k \in 1..Len(ws) |-> unpack13_to_quant(ws[k])])

\* encode_raw_pixels_to_words(px, out), two pixels to a word
EncodePairs ==
  /\ fx.phase = "idle"
  /\ \E px \in PixelInputs :
       fx' = [FX0 EXCEPT !.op = "pairs", !.phase = "packed", !.src = px,
                         !.mid = encode_raw_pixels_to_words(px), !.ok = TRUE]
  /\ UNCHANGED <<pvars, cvars, rs, hd, pl>>

\* decode_raw_words_to_pixels(in, out), two pixels to a word
DecodePairs ==
  /\ fx.op = "pairs" /\ fx.phase = "packed"
  /\ fx' = [fx EXCEPT !.phase = "back", !.ok = TRUE,
                      !.out = decode_raw_words_to_pixels(fx.mid)]
  /\ UNCHANGED <<pvars, cvars, rs, hd, pl>>

\* encode_raw_pixels_to_words(px, out_words), one pixel to a word
Encode13 ==
  /\ fx.phase = "idle"
  /\ \E px \in PixelInputs :
       fx' = [FX0 EXCEPT !.op = "single", !.phase = "packed", !.src = px,
                         !.mid = encode_raw_pixels_to_words_13(px), !.ok = TRUE]
  /\ UNCHANGED <<pvars, cvars, rs, hd, pl>>

\* decode_raw_words_to_pixels(in_words, out_px), one pixel to a word
Decode13 ==
  /\ fx.op = "single" /\ fx.phase = "packed"
  /\ fx' = [fx EXCEPT !.phase = "back", !.ok = TRUE,
                      !.out = decode_raw_words_to_pixels_13(fx.mid)]
  /\ UNCHANGED <<pvars, cvars, rs, hd, pl>>

FxDone ==
  /\ fx.phase = "back"
  /\ fx' = FX0
  /\ UNCHANGED <<pvars, cvars, rs, hd, pl>>

FxNext ==
  \/ IlInterleave
  \/ IlDeinterleave
  \/ PackUnbalanced
  \/ UnpackUnbalanced
  \/ PackTrits
  \/ UnpackTrits
  \/ EncodePairs
  \/ DecodePairs
  \/ Encode13
  \/ Decode13
  \/ FxDone

FxInit == PolicyIdle /\ ContainerInit /\ CodecInit

SpecFx == FxInit /\ [][FxNext]_vars

\* ================================================================ claims
Deciding == ev.op \in {"decide_ex", "t3p_approve", "t3v_approve"} /\ ~ev.user_null /\ ~ev.meta_null

\* the candidate list decide_ex works with for the decided tag
OverlapCands ==
  IF pol.enable_overlap_redirect THEN overlap_bottom_candidates(pol, R.tag) ELSE << >>

InRound2 == ev.step \in {"round2_redirect", "round2_refused", "round2_noprep"}

ReaderCalled == io.op \in {"t3p_read_payload", "t3v_read_frame"}

\* the words and the meta the writer stored for the record the call asked for
RecordWords ==
  IF written.kind = "t3p" THEN written.words
  ELSE IF io.frame_idx < Len(written.frames) THEN written.frames[io.frame_idx + 1]
  ELSE << >>

RecordMeta ==
  IF written.kind = "t3p" THEN written.meta
  ELSE IF io.frame_idx < Len(written.frames) /\ Len(written.metas) = Len(written.frames)
  THEN written.metas[io.frame_idx + 1]
  ELSE << >>

C2_FalseMeansNoPayload ==
  (ReaderCalled /\ ~io.ret) => io.payload_read = 0

\* C3: an approve adapter returns true exactly when it was given a policy and
\* a meta and the decision for that meta is Internal or CoexistAccepted.
C3_ApproveIffGranted ==
  ev.op \in {"t3p_approve", "t3v_approve"} =>
    (ev.ret <=> /\ ~ev.user_null
                /\ ~ev.meta_null
                /\ R.decision \in {INTERNAL, COEXIST_ACCEPTED})

C3_Witness ==
  /\ ev.op = "t3v_approve"
  /\ R.decision = UNKNOWN_SANDBOX
  /\ R.next.should_redirect
  /\ ~ev.ret

\* C4: a decision on a meta with route_phase = 0 for which overlap candidates
\* exist emits no redirect, whatever the prepare callback returned.
C4_NoRedirectInRound1 ==
  (Deciding /\ R.tag.route_phase = 0 /\ OverlapCands # << >>) => ~R.next.should_redirect

C4_Witness ==
  /\ ev.op = "decide_ex"
  /\ R.tag.route_phase = 0
  /\ OverlapCands # << >>
  /\ ev.calls.prepare /\ ev.prep_ok /\ ev.prep_target # EMPTY
  /\ ~R.next.should_redirect

\* C5 (as stated): after a decision with overlap candidates and route_phase = 0
\* a target for the requester is cached iff the prepare callback returned true.
C5_TargetIffPrepareTrue ==
  (Deciding /\ R.tag.route_phase = 0 /\ OverlapCands # << >>) =>
    (CachedTarget(prepared_cache, R.tag.domain) # EMPTY <=> ev.prep_ok)

\* C5 (amended): after such a decision a target for the requester is cached iff
\* the prepare callback returned true with a non-empty target in that call or a
\* target for the requester was cached before it; a target returned in the call
\* is the one cached.
C5_TargetIffPreparedOrKept ==
  (Deciding /\ R.tag.route_phase = 0 /\ OverlapCands # << >>) =>
    /\ CachedTarget(prepared_cache, R.tag.domain) # EMPTY
         <=> ((ev.prep_ok /\ ev.prep_target # EMPTY) \/ ev.had_prep # EMPTY)
    /\ (ev.prep_ok /\ ev.prep_target # EMPTY)
         => CachedTarget(prepared_cache, R.tag.domain) = ev.prep_target

C5_Witness ==
  /\ ev.op = "decide_ex"
  /\ R.tag.route_phase = 0
  /\ OverlapCands # << >>
  /\ ev.prep_ok /\ ev.prep_target = S_abc2
  /\ ev.had_prep = S_abc1
  /\ CachedTarget(prepared_cache, R.tag.domain) = S_abc2

\* C6: in Round 2 with a cached preparation, when the accept callback returns
\* true the decision redirects to the cached target with
\* ttl_after = min(route_ttl, ttl_global_max) - 1 and the preparation is gone.
C6_AcceptRedirectsAndConsumes ==
  (ev.op = "decide_ex" /\ InRound2 /\ ev.had_prep # EMPTY /\ ev.calls.accept /\ ev.accept_ok) =>
    /\ R.next.should_redirect
    /\ R.next.target_domain = ev.had_prep
    /\ R.next.ttl_after = Min(R.tag.route_ttl, pol.ttl_global_max) - 1
    /\ CachedTarget(prepared_cache, R.tag.domain) = EMPTY

C6_Witness ==
  /\ ev.op = "decide_ex"
  /\ InRound2
  /\ ev.calls.accept /\ ev.accept_ok
  /\ R.tag.route_ttl > pol.ttl_global_max
  /\ R.next.should_redirect
  /\ R.next.target_domain = S_abc2
  /\ R.next.ttl_after = pol.ttl_global_max - 1

\* C7: in Round 2, if the accept callback returns false or there is no cached
\* preparation, the outcome is Sandbox: UNKNOWN_SANDBOX, no redirect, and no
\* preparation left for the requester.
C7_RefusalIsSandbox ==
  (ev.op = "decide_ex" /\ InRound2 /\ (ev.had_prep = EMPTY \/ (ev.calls.accept /\ ~ev.accept_ok))) =>
    /\ R.decision = UNKNOWN_SANDBOX
    /\ ~R.next.should_redirect
    /\ R.next.target_domain = EMPTY
    /\ CachedTarget(prepared_cache, R.tag.domain) = EMPTY

C7_Witness ==
  /\ ev.op = "decide_ex"
  /\ InRound2
  /\ ev.had_prep # EMPTY
  /\ ev.calls.accept /\ ~ev.accept_ok
  /\ R.decision = UNKNOWN_SANDBOX
  /\ CachedTarget(prepared_cache, R.tag.domain) = EMPTY

\* C8: a preparation whose window had expired before the call is pruned, so a
\* Round-2 presentation by its requester is a missing cache, not a redirect.
C8_ExpiredPrepIsMissing ==
  (ev.op = "decide_ex" /\ ev.expired_before) =>
    /\ ev.step # "round2_redirect"
    /\ ~R.next.should_redirect
    /\ CachedTarget(prepared_cache, R.tag.domain) \in {EMPTY, ev.prep_target}

\* C9: no redirect when min(route_ttl, ttl_global_max) = 0 or
\* route_hops >= hops_global_max; an emitted ttl_after is below the presented
\* route_ttl; a chain re-presented through the route helper emits at most
\* min(ttl_global_max, hops_global_max) redirects.
C9_RedirectChainCapped ==
  /\ (ev.op = "decide_ex" /\ R.next.should_redirect) =>
       /\ Min(R.tag.route_ttl, pol.ttl_global_max) > 0
       /\ R.tag.route_hops < pol.hops_global_max
       /\ R.next.ttl_after < R.tag.route_ttl
  /\ chain <= Min(pol.ttl_global_max, pol.hops_global_max)

\* the decided domain starts with none of the configured allowed roots
OutsideRoots ==
  /\ pol.allowed_roots # << >>
  /\ \A i \in 1..Len(pol.allowed_roots) : ~starts_with(R.tag.domain, pol.allowed_roots[i])

TooDeep == pol.max_depth > 0 /\ domain_depth(R.tag.domain) > pol.max_depth

\* C10 (as stated): a domain outside every configured allowed root, or deeper
\* than the configured max depth, is decided Reject, and no later step is
\* evaluated.
C10_GuardsReject ==
  (ev.op = "decide_ex" /\ (OutsideRoots \/ TooDeep)) =>
    /\ R.decision = REJECT
    /\ ~ev.calls.neighbor /\ ~ev.calls.prepare /\ ~ev.calls.accept
    /\ ~R.next.should_redirect

\* C10 (amended): such a domain is decided UNKNOWN_SANDBOX by the guard itself:
\* the sandbox hook is called when installed, no neighbour, prepare or accept
\* callback is asked, nothing is redirected and the rotor does not move.
C10_GuardsSandbox ==
  (ev.op = "decide_ex" /\ (OutsideRoots \/ TooDeep)) =>
    /\ R.decision = UNKNOWN_SANDBOX
    /\ ev.step \in {"root", "depth"}
    /\ ev.calls.hook <=> pol.on_unknown_sandbox
    /\ ~ev.calls.neighbor /\ ~ev.calls.prepare /\ ~ev.calls.accept
    /\ ~R.next.should_redirect
    /\ R.next.target_domain = EMPTY
    /\ rotor_tick = ev.tick_before

\* a too-deep domain carrying a route: the guard answers before any routing
C10_Witness ==
  /\ ev.op = "decide_ex"
  /\ TooDeep /\ ~OutsideRoots
  /\ R.tag.route_ttl > 0
  /\ R.decision = UNKNOWN_SANDBOX
  /\ ev.step = "depth"
  /\ ev.calls.hook

\* C11 (as stated): every call of decide_ex increases the policy's rotor tick,
\* whatever the outcome.
C11_TickEveryDecision ==
  (ev.op = "decide_ex") => rotor_tick > ev.tick_before

\* C11 (amended): decide_ex increases the rotor tick by one exactly when it
\* runs Round 1 or redirects in Round 2; every other outcome leaves it alone.
C11_TickOnOverlapRounds ==
  (ev.op = "decide_ex") =>
    rotor_tick = ev.tick_before
                   + (IF ev.step \in {"round1", "round2_redirect"} THEN 1 ELSE 0)

\* an Internal decision taken after the rotor had already moved: no advance
C11_Witness ==
  /\ ev.op = "decide_ex"
  /\ ev.step = "member"
  /\ R.decision = INTERNAL
  /\ ev.tick_before > 0
  /\ rotor_tick = ev.tick_before

\* C12: for every profile, data vector and error pattern of weight <= t added
\* to encode_block(data), decode_block returns true and outputs the data.
C12_CorrectsUpToT ==
  (rs.phase = "decoded" /\ Cardinality(rs.errs) <= rs_t(rs.k)) =>
    (rs.ok /\ rs.out_k = rs.data)

\* C13: an error pattern of weight exactly t + 1 makes decode_block report
\* failure instead of returning data.
C13_RejectsTPlusOne ==
  (rs.phase = "decoded" /\ Cardinality(rs.errs) = rs_t(rs.k) + 1) => ~rs.ok

\* C14: whenever decode_block returns false, inout_n holds exactly the values
\* it held on entry.
C14_FailureLeavesInput ==
  (rs.phase = "decoded" /\ ~rs.ok) => rs.buf = rs.entry

\* C15: RS(26,22), all-zero codeword, alpha^5 added at position 3 and alpha^11
\* at position 17: decode succeeds with all-zero data, those two positions are
\* back to zero and every other position is unchanged.
C15_TwoErrorsCorrected ==
  (/\ rs.phase = "decoded" /\ rs.k = 22 /\ rs.sent = [i \in 1..RS_N |-> 0]
   /\ rs.errs = {3, 17}
   /\ rs.entry[4] = pow_alpha(5) /\ rs.entry[18] = pow_alpha(11)) =>
    /\ rs.ok
    /\ rs.out_k = ZeroData(22)
    /\ rs.buf = [i \in 1..RS_N |-> 0]

\* C20: check returns true on pack(H), and false on pack(H) with any single
\* trit of one of the 23 symbols outside the CRC changed.
C20_CheckDetectsOneTrit ==
  (hd.phase = "checked") =>
    /\ (hd.flip.sym = -1) => hd.ok
    /\ (\E x \in 1..Len(CrcCovered) : CrcCovered[x] = hd.flip.sym) => ~hd.ok

\* the least-significant trit of symbol 5 of the P5 header was changed
C20_Witness ==
  /\ hd.phase = "checked"
  /\ hd.h = HeaderP5
  /\ hd.flip.sym = 5 /\ hd.flip.trit = 0
  /\ hd.p # HeaderCodec_pack(HeaderP5)
  /\ ~hd.ok

\* ----------------------------------------------------------------- C16
\* A frame that went from the encoder to a decoder whose context is not in RAW
\* mode, untouched by the channel.
CleanFrame ==
  /\ pl.phase = "decoded"
  /\ pl.hit = "none"
  /\ pl.cfg.profile # RAW_MODE
  /\ ~pl.dec.raw_copy

\* C16: for RAW words whose 27th trit is zero and every non-RAW configuration,
\* decode_profile_to_raw(encode_profile_from_raw(raw)) returns true and yields
\* exactly the input words.
C16_RoundTrip ==
  CleanFrame => (pl.dec.ok /\ pl.dec.out = pl.raw)

\* ----------------------------------------------------------------- C17
\* the decoder's own beacon test for symbol q (from 0) of its body words
dec_beacon_slot(hdr, q) ==
  /\ hdr.beacon.enabled
  /\ hdr.beacon.words_period > 0
  /\ ((q \div SYM_PER_WORD) % hdr.beacon.words_period) = 0
  /\ (q % SYM_PER_WORD) = hdr.beacon.band_slot

\* how many symbols up to and including q remain once the beacons are stripped
remaining_upto(hdr, q) ==
  q + 1 - Cardinality({x \in 0..q : dec_beacon_slot(hdr, x)})

\* C17: the decoder strips the beacons first and then descrambles what
\* remains: the k-th remaining symbol of the body is descrambled with the k-th
\* state of the scrambler sequence, as the encoder scrambled its k-th symbol
\* before it inserted the beacons.
C17_DescrambleAfterStrip ==
  (CleanFrame /\ pl.dec.stage >= 2) =>
    \A q \in 0..(Len(pl.dec.sts) - 1) :
      ~dec_beacon_slot(pl.dec.H.hdr, q) =>
        pl.dec.sts[q + 1] =
          lcg_run(pl.cfg.seed, pl.cfg.seed.s0 % 3, Len(pl.dec.sts))[
            remaining_upto(pl.dec.H.hdr, q)]

\* ----------------------------------------------------------------- C18
\* C18: the decoder takes as header blocks the two blocks the encoder emitted,
\* and its body starts at the symbol the encoder emitted as its first body
\* symbol.
C18_HeaderAndBodyStart ==
  (CleanFrame /\ Len(pl.stream) >= HDR_WORDS) =>
    /\ pl.dec.H.A = pl.enc.encA
    /\ pl.dec.H.B = pl.enc.encB
    /\ (pl.dec.stage >= 2 /\ Len(pl.enc.body) > 0) => pl.dec.body_at = pl.enc.body_at

\* ----------------------------------------------------------------- C19
\* the steps of the decoder, taken again from the stream it was given: the
\* header step, and the blocks its band loops hand to the codecs
HeaderStep == read_and_decode_header_from_words(pl.stream)

BodyBlocks(H) ==
  band_blocks(
    to_words(descramble_words_inplace(
               Vec(word_symbols(SubSeq(pl.stream, H.cursor + 1, Len(pl.stream)))),
               H.hdr)),
    H.hdr)

block_accepted(blk) == decode_block(blk.k, blk.nbuf, [x \in 1..blk.k |-> 0]).ok

\* d is what the decoder left, H the header step and blocks the body blocks
first_failure_terminal(d, H, blocks) ==
  /\ d.stage \in {1, 2, 4}
  /\ d.ok <=> (d.stage = 4)
  /\ ~d.ok => d.out = << >>
  /\ (d.stage = 1) <=> ~H.ok
  /\ (d.stage = 1) => d.calls = 0
  /\ (d.stage = 2) =>
       /\ d.calls \in 1..Len(blocks)
       /\ ~block_accepted(blocks[d.calls])
       /\ \A i \in 1..(d.calls - 1) : block_accepted(blocks[i])
  /\ (d.stage = 4) =>
       /\ d.calls = Len(blocks)
       /\ \A i \in 1..d.calls : block_accepted(blocks[i])

\* C19: the decoder is past the header only when the header blocks decoded and
\* the CRC matched, and it emits only when every block of the body decoded as
\* well; the first step that fails ends the frame: the call returns false, out
\* is empty, a header failure is followed by no block decode, and the block
\* that was refused is the last one decoded.
C19_FirstFailureTerminal ==
  (pl.phase = "decoded" /\ ~pl.dec.raw_copy) =>
    first_failure_terminal(pl.dec, HeaderStep, BodyBlocks(HeaderStep))

\* a frame whose header was accepted and whose body held a block the codec
\* refused, after earlier blocks were accepted
C19_Witness ==
  /\ pl.phase = "decoded"
  /\ ~pl.dec.raw_copy
  /\ pl.dec.stage = 2
  /\ pl.dec.calls > 1
  /\ ~pl.dec.ok
  /\ pl.dec.out = << >>

\* ----------------------------------------------------------------- C21
\* C21: a record written by t3p_write and read back, untouched, by
\* t3p_read_payload with an approving callback comes back: the call returns
\* true and out_words holds the words that were written.
C21_T3pRoundTrip ==
  (io.op = "t3p_read_payload" /\ io.intact /\ io.approve = "yes") =>
    (io.ret /\ out_words = written.words)

\* ----------------------------------------------------------------- C22
\* C22: after t3v_write, t3v_read_frame(i) with an approving callback on the
\* untouched file returns true and exactly the words written for frame i, for
\* every i below the frame count.
C22_T3vFrameByIndex ==
  (/\ io.op = "t3v_read_frame" /\ io.intact /\ io.approve = "yes"
   /\ io.frame_idx < Len(written.frames)) =>
    (io.ret /\ out_words = written.frames[io.frame_idx + 1])

\* ----------------------------------------------------------------- C23
\* what the stream under the reader shows: its magic, its version byte, and
\* whether it ends before the record the call asked for does
StreamMagic == IF written.kind = "t3p" THEN MAGIC_T3P ELSE MAGIC_T3V

BadMagic == Take(file, 0, 4) # StreamMagic

BadVersion == Len(file) >= 5 /\ file[5] # CONTAINER_VER

\* C23: a reader call returns false on every stream whose magic is wrong or
\* whose version byte is not the written version (the CRC32 and size checks
\* are the reader's own comparisons).
C23_RejectsMismatch ==
  (io.op # "none" /\ (BadMagic \/ BadVersion)) => ~io.ret

\* ----------------------------------------------------------------- C24
\* C24: when a writer returned false, no reader call on the file it left
\* behind returns true.
C24_WritersFailClosed ==
  (io.op # "none" /\ written.kind # "none" /\ ~written.ret) => ~io.ret

\* ----------------------------------------------------------------- C25
\* C25: the subword byte of a container a writer completed is the code of the
\* subword mode (S27 -> 0, S24 -> 1, S21 -> 2, S18 -> 3, S15 -> 4), and a
\* header read of the untouched file hands back the mode that was written.
C25_SubwordCode ==
  (cpc = "stored" \/ (cpc = "read" /\ io.intact)) =>
    /\ file[6] = subword_to_code(written.sub)
    /\ (io.op \in {"t3p_read_header", "t3v_read_header"} /\ io.ret)
         => io.out_sub = written.sub

\* ----------------------------------------------------------------- C26
\* C26: for every symbol vector and every tile with w, h >= 1,
\* deinterleave2D_boustrophedon(interleave2D_boustrophedon(S, tile), tile) = S,
\* a partial final tile included.
C26_InterleaveRoundTrip ==
  (fx.op = "il" /\ fx.phase = "back") => fx.out = fx.src

\* a vector that ends in a partial tile whose second row runs backwards: the
\* interleaver moved symbols and the deinterleaver put them back
C26_Witness ==
  /\ fx.op = "il" /\ fx.phase = "back"
  /\ Len(fx.src) % (fx.tile.w * fx.tile.h) > fx.tile.w + 1
  /\ fx.mid # fx.src
  /\ SubSeq(fx.mid, Len(fx.mid) - 1, Len(fx.mid))
       # SubSeq(fx.src, Len(fx.src) - 1, Len(fx.src))
  /\ fx.out = fx.src

\* ----------------------------------------------------------------- C27
\* C27: for every trit vector v, of any length, unpacking the base-243
\* packing of v for |v| trits gives v back, with either pair of routines.
C27_Base243RoundTrip ==
  (fx.op \in {"unbalanced", "trits"} /\ fx.phase = "back") =>
    (fx.ok /\ fx.out = fx.src)

\* a vector of more than five trits whose last block is partial and ends in a
\* nonzero trit, packed by pack_unbalanced_base243 and unpacked for |v| trits
C27_Witness ==
  /\ fx.op = "unbalanced" /\ fx.phase = "back"
  /\ Len(fx.src) > 5 /\ Len(fx.src) % 5 # 0
  /\ fx.src[Len(fx.src)] # 0
  /\ Len(fx.mid) = 2
  /\ fx.out = fx.src

\* ----------------------------------------------------------------- C28
\* C28: for every sequence of quantized pixels within range, of any length,
\* decoding the words it was encoded to returns the same pixels, in the same
\* number and order, under either packing policy.
C28_PixelRoundTrip ==
  (fx.op \in {"pairs", "single"} /\ fx.phase = "back") =>
    (fx.ok /\ fx.out = fx.src)

\* ----------------------------------------------------------------- C29
\* what a decoder configures itself from
HeaderSettings(h) ==
  <<h.profile, h.uep, h.tile, h.seed, h.subword, h.centered, h.coset,
    h.frame_seq, h.beacon>>

\* C29: for every valid superframe header H, band indices 0..3,
\* HeaderCodec::unpack(HeaderCodec::pack(H)) has the profile, the per-band UEP
\* layout, the tile, the seed, the subword, the centered flag, the coset,
\* frame_seq and the beacon settings of H.
C29_HeaderRoundTrip ==
  (hd.phase = "unpacked" /\ hd.flip.sym = -1 /\ hd.h.profile # RAW_MODE) =>
    HeaderSettings(hd.u) = HeaderSettings(hd.h)

\* ----------------------------------------------------------------- C30
\* the target held in the cache under a requester's own domain, EMPTY when
\* there is none
PreparedFor(cache, d) ==
  LET own == {i \in 1..Len(cache) : cache[i].requester_domain = d}
  IN IF own = {} THEN EMPTY
     ELSE cache[CHOOSE i \in own : \A j \in own : i <= j].prepared_target

\* a decision for requester d leaves what is prepared for every other
\* requester as it was
OthersKept(d) ==
  \A i \in 1..Len(prepared_cache) :
    LET a == prepared_cache[i].requester_domain
    IN a # d => PreparedFor(prepared_cache', a) = PreparedFor(prepared_cache, a)

\* C30: the prep cache is keyed by requester domain.  In every decision, the
\* redirect target of a Round 2 is what was prepared under the requester's own
\* domain, and whatever is prepared for another requester is neither emitted in
\* its place nor consumed.
C30_PrepKeyedByRequester ==
  [][(pc = "ready" /\ pc' = "decided" /\ ev'.op = "decide_ex") =>
       /\ OthersKept(R'.tag.domain)
       /\ ev'.step = "round2_redirect" =>
            /\ R'.next.target_domain = PreparedFor(prepared_cache, R'.tag.domain)
            /\ PreparedFor(prepared_cache', R'.tag.domain) = EMPTY
       /\ ev'.step = "round2_noprep" => ~R'.next.should_redirect]_vars

\* a Round 2 for a/b/d has redirected to the target prepared for a/b/d while a
\* different target, prepared for a/b/c, stays in the cache
C30_Witness ==
  /\ ev.op = "decide_ex" /\ ev.step = "round2_redirect"
  /\ R.tag.domain = S_abd
  /\ PreparedFor(prepared_cache, S_abc) # EMPTY
  /\ PreparedFor(prepared_cache, S_abc) # R.next.target_domain

=====================
